---------------------------- MODULE Spec2Model ----------------------------
(***************************************************************************)
(* Model of the manifest_merger tool of vendor_flamingo: the job builder   *)
(* and thread-pool scheduler of merge_upstream and the per-repository git  *)
(* sequence of merge_in_repo (scripts/manifest_merger/src/merge.rs).       *)
(***************************************************************************)
EXTENDS Naturals, Sequences, FiniteSets, TLC

(***************************************************************************)
(* Bounds of the model.                                                    *)
(***************************************************************************)
\* largest worker count handed to ThreadPool::new
MaxThreads == 3
\* largest number of child nodes of a manifest file (resolver inputs)
MaxChildren == 2
\* largest number of calls made to the remote-registration functions
MaxCalls == 3
\* largest number of times the tool is run again on the same source tree
MaxReruns == 1

(***************************************************************************)
(* Program constants.                                                      *)
(***************************************************************************)
ATTR_NAME == "name"
ATTR_PATH == "path"
FLAMINGO_REMOTE == "flamingo"
FLAMINGO_BRANCH == "A13"

(***************************************************************************)
(* Option and Result values.                                               *)
(***************************************************************************)
None == [some |-> FALSE]
Some(v) == [some |-> TRUE, val |-> v]
Ok(v) == [ok |-> TRUE, val |-> v]
Err(e) == [ok |-> FALSE, err |-> e]

(***************************************************************************)
(* HashMap<String, String>: a sequence of entries with pairwise distinct   *)
(* keys.  Inserting an existing key replaces its value.                    *)
(***************************************************************************)
Keys(map) == {map[i].key : i \in 1..Len(map)}

contains_key(map, k) == k \in Keys(map)

HashMapGet(map, k) == LET i == CHOOSE n \in 1..Len(map) : map[n].key = k
                      IN  map[i].val

\* a Vec-like insert that keeps an existing entry of the same key
HashMapPush(map, k, v) == Append(map, [key |-> k, val |-> v])

HashMapInsert(map, k, v) ==
    IF contains_key(map, k)
    THEN [i \in 1..Len(map) |->
            IF map[i].key = k THEN [key |-> k, val |-> v] ELSE map[i]]
    ELSE Append(map, [key |-> k, val |-> v])

RECURSIVE HashMapCollect(_)
HashMapCollect(pairs) ==
    IF pairs = <<>> THEN <<>>
    ELSE LET n == Len(pairs)
         IN  HashMapInsert(HashMapCollect(SubSeq(pairs, 1, n - 1)),
                           pairs[n].key, pairs[n].val)

(***************************************************************************)
(* Manifest files.  A file is unreadable/unparsable (ok = FALSE) or holds  *)
(* the child nodes of its root <manifest> element; a node is a text node   *)
(* or an element with a name and an attribute map.                         *)
(***************************************************************************)
TextNode == [kind |-> "text"]
Element(name, attrs) == [kind |-> "element", name |-> name, attributes |-> attrs]
Project(path, name) == Element("project", [path |-> path, name |-> name])

\* read_manifest: Err when the file cannot be read or parsed
read_manifest(file) ==
    IF file.ok THEN Ok(file.children) ELSE Err("Failed to read or parse")

\* get_repos: path -> name of every child element that has both attributes
get_repos(file) ==
    LET r == read_manifest(file)
    IN  IF ~r.ok THEN r
        ELSE LET elements == SelectSeq(r.val, LAMBDA node : node.kind = "element")
                 withBoth == SelectSeq(elements, LAMBDA element :
                                 /\ ATTR_PATH \in DOMAIN element.attributes
                                 /\ ATTR_NAME \in DOMAIN element.attributes)
                 pairs == [i \in 1..Len(withBoth) |->
                             [key |-> withBoth[i].attributes[ATTR_PATH],
                              val |-> withBoth[i].attributes[ATTR_NAME]]]
             IN  Ok(HashMapCollect(pairs))

(***************************************************************************)
(* Manifest (the descriptor of one upstream): name and tag.                *)
(***************************************************************************)
get_remote_name(manifest) == "clo_" \o manifest.name

get_remote_url(manifest) == "https://git.codelinaro.org/clo/la"

get_revision(manifest) == "refs/tags/" \o manifest.tag

(***************************************************************************)
(* The job builder of merge_upstream: the closure mapped over the entries  *)
(* of flamingo_repos.  It yields Some(MergeData) or None.                  *)
(***************************************************************************)
\* the checkout path without the project's own path
RepoPathOfRoot(source, path) == source

RepoPath(source, path) == source \o "/" \o path

\* the clone URL composed from the local path, not the upstream-side name
MakeMergeDataFromPath(manifest, repos, source, path, push) ==
    [remote_name |-> get_remote_name(manifest),
     remote_url  |-> get_remote_url(manifest) \o "/" \o path,
     repo_path   |-> RepoPath(source, path),
     repo_name   |-> path,
     revision    |-> get_revision(manifest),
     push        |-> push]

MakeMergeData(manifest, repos, source, path, push) ==
    [remote_name |-> get_remote_name(manifest),
     remote_url  |-> get_remote_url(manifest) \o "/" \o HashMapGet(repos, path),
     repo_path   |-> RepoPath(source, path),
     repo_name   |-> path,
     revision    |-> get_revision(manifest),
     push        |-> push]

\* the vendor mapping consulted first
BuildJobVendorFirst(sysm, sysr, venm, venr, source, path, push) ==
    IF venm.some /\ contains_key(venr, path)
    THEN Some(MakeMergeData(venm.val, venr, source, path, push))
    ELSE IF sysm.some /\ contains_key(sysr, path)
         THEN Some(MakeMergeData(sysm.val, sysr, source, path, push))
         ELSE None

\* the vendor branch taken without looking the path up in vendor_repos
BuildJobUnchecked(sysm, sysr, venm, venr, source, path, push) ==
    IF sysm.some /\ contains_key(sysr, path)
    THEN Some(MakeMergeData(sysm.val, sysr, source, path, push))
    ELSE IF venm.some
         THEN Some(MakeMergeDataFromPath(venm.val, venr, source, path, push))
         ELSE None

BuildJob(sysm, sysr, venm, venr, source, path, push) ==
    IF sysm.some /\ contains_key(sysr, path)
    THEN Some(MakeMergeData(sysm.val, sysr, source, path, push))
    ELSE IF venm.some /\ contains_key(venr, path)
         THEN Some(MakeMergeData(venm.val, venr, source, path, push))
         ELSE None

(***************************************************************************)
(* State.                                                                  *)
(*   source .. push     the arguments of merge_upstream                    *)
(*   main               position of the calling thread                     *)
(*   *_repos            the three maps merge_upstream reads                *)
(*   visited            entries of flamingo_repos the iterator has passed  *)
(*   jobs               the MergeData handed to thread_pool.execute        *)
(*   queue              jobs waiting in the pool's channel                 *)
(*   st                 per job: pc (stage), runs (times started), remote  *)
(*                      (the Remote handle), trace (stages performed) and  *)
(*                      console (lines printed)                            *)
(*   repos              the checkouts on disk, by path                     *)
(*   world              what the outside (disk, network) may answer, by    *)
(*                      checkout path                                      *)
(*   initial_repos      the checkouts as they were when the run began      *)
(*   calls              the calls made to the remote-registration          *)
(*                      functions of git.rs, with what each returned       *)
(*   previous           the earlier runs of the tool on the same source    *)
(*                      tree: the jobs, their final local states and the   *)
(*                      checkouts each run left behind                     *)
(*   input              the arguments of the function under study, in the  *)
(*                      specifications that apply one function to inputs   *)
(*                      drawn from a set; what it returned goes to calls   *)
(***************************************************************************)
VARIABLES source, flamingo_manifest, system_manifest, vendor_manifest,
          thread_count, push,
          main, flamingo_repos, system_repos, vendor_repos, visited,
          jobs, queue, st, repos, world, initial_repos, calls, previous,
          input

args == <<source, flamingo_manifest, system_manifest, vendor_manifest,
          thread_count, push>>
maps == <<flamingo_repos, system_repos, vendor_repos>>
env == <<world, initial_repos, calls, previous, input>>
vars == <<args, main, maps, visited, jobs, queue, st, repos, env>>

(***************************************************************************)
(* Inputs the model draws from.                                            *)
(***************************************************************************)
SourceRoot == "/src"
Paths == {"art", "bionic"}
SystemTag == "S1"
VendorTag == "V1"
PublishUrl == "ssh://git@flamingo/repo"
StaleUrl == "https://old.example/repo"

Manifest(name, tag, file) == [name |-> name, tag |-> tag, file |-> file]
File(children) == [ok |-> TRUE, children |-> children]
Unreadable == [ok |-> FALSE, children |-> <<>>]

SystemRevision == get_revision(Manifest("system", SystemTag, Unreadable))
VendorRevision == get_revision(Manifest("vendor", VendorTag, Unreadable))
SystemRemote == get_remote_name(Manifest("system", SystemTag, Unreadable))
VendorRemote == get_remote_name(Manifest("vendor", VendorTag, Unreadable))

\* every path a job of this model can name as its checkout
RepoPaths == {SourceRoot} \cup {RepoPath(SourceRoot, p) : p \in Paths}

(***************************************************************************)
(* Checkouts.  remotes: name -> url; refs: the references that resolve;    *)
(* state: "none" or "merge" (MERGE_HEAD present); conflicts: the index has *)
(* conflict entries; staged: index or work tree differ from HEAD; head and *)
(* commits: the current commit and the number of commits on the branch;    *)
(* log: the commits created on the branch since the model began, in order; *)
(* pushed: the pushes received by remotes, in order.                       *)
(***************************************************************************)
NoRemotes == [n \in {} |-> ""]

Checkout(exists, remotes, refs, state, staged) ==
    [exists |-> exists, remotes |-> remotes, refs |-> refs, state |-> state,
     conflicts |-> FALSE, staged |-> staged, head |-> 1, commits |-> 1,
     log |-> <<>>, pushed |-> <<>>]

FreshCheckout == Checkout(TRUE, FLAMINGO_REMOTE :> PublishUrl, {}, "none", FALSE)
MissingCheckout == Checkout(FALSE, NoRemotes, {}, "none", FALSE)
UnpublishedCheckout == Checkout(TRUE, NoRemotes, {}, "none", FALSE)
UsedCheckout ==
    Checkout(TRUE,
             FLAMINGO_REMOTE :> PublishUrl @@ SystemRemote :> StaleUrl
                 @@ VendorRemote :> StaleUrl,
             {SystemRevision, VendorRevision}, "none", FALSE)
MidMergeCheckout ==
    Checkout(TRUE,
             FLAMINGO_REMOTE :> PublishUrl @@ SystemRemote :> StaleUrl
                 @@ VendorRemote :> StaleUrl,
             {SystemRevision, VendorRevision}, "merge", TRUE)

\* the signature repository.signature() gives: user.name/user.email
DefaultSignature == "default"

\* git.rs add_and_commit: stage everything under pathspec, write the tree
\* and commit it on HEAD with the default signature as author and committer
\* and the previous HEAD as only parent.  Repository::commit leaves the
\* merge state (MERGE_HEAD) as it is.
add_and_commit(repo, pathspec, message) ==
    LET oid == repo.commits + 1
    IN  [oid |-> oid,
         repo |-> [repo EXCEPT
                     !.log = Append(@, [id |-> oid,
                                        parents |-> <<repo.head>>,
                                        author |-> DefaultSignature,
                                        committer |-> DefaultSignature,
                                        message |-> message]),
                     !.head = oid,
                     !.commits = oid,
                     !.staged = FALSE]]

InitCheckouts == {FreshCheckout, MissingCheckout, UnpublishedCheckout,
                  UsedCheckout, MidMergeCheckout}

(***************************************************************************)
(* The outside world of one checkout: for each external call, the set of   *)
(* answers it may give.                                                    *)
(***************************************************************************)
AnyWorld ==
    [create   |-> {"ok", "error"},
     lookup   |-> {"ok", "fail"},
     fetch    |-> {"ok_ref", "ok", "fail"},
     annotate |-> {"ok", "fail"},
     merge    |-> {"uptodate", "changes", "conflict", "error"},
     push     |-> {"ok", "fail", "panic"}]

(***************************************************************************)
(* Initial states: merge_upstream has been called and has done nothing.    *)
(***************************************************************************)
NotStarted ==
    /\ main = "start"
    /\ flamingo_repos = <<>> /\ system_repos = <<>> /\ vendor_repos = <<>>
    /\ visited = {}
    /\ jobs = <<>> /\ queue = <<>> /\ st = <<>>
    /\ calls = <<>>
    /\ previous = <<>>
    /\ input = None

BaselineFile == File(<<Project("art", "flamingo_art"),
                       Project("bionic", "flamingo_bionic")>>)
SystemFiles == {File(<<Project("art", "platform/art")>>),
                File(<<Project("art", "platform/art"),
                       Project("bionic", "platform/bionic")>>)}
VendorFiles == {File(<<Project("bionic", "qssi/bionic")>>),
                File(<<Project("art", "qssi/art"),
                       Project("bionic", "qssi/bionic")>>)}

Init ==
    /\ source = SourceRoot
    /\ flamingo_manifest = Manifest("flamingo", "", BaselineFile)
    /\ system_manifest \in
          {None} \cup {Some(Manifest("system", SystemTag, f)) : f \in SystemFiles}
    /\ vendor_manifest \in
          {None} \cup {Some(Manifest("vendor", VendorTag, f)) : f \in VendorFiles}
    /\ thread_count \in 1..MaxThreads
    /\ push \in BOOLEAN
    /\ repos \in {r \in [RepoPaths -> InitCheckouts] : r[SourceRoot] = FreshCheckout}
    /\ initial_repos = repos
    /\ world = [rp \in RepoPaths |-> AnyWorld]
    /\ NotStarted

\* a job as thread_pool.execute receives it
Queued == [pc |-> "queued", runs |-> 0, remote |-> None, trace |-> <<>>,
           console |-> <<>>]

(***************************************************************************)
(* merge_upstream, the calling thread.                                     *)
(***************************************************************************)
\* lines 72-80: read the three maps (unwrap panics on Err), create the pool
ReadRepos ==
    /\ main = "start"
    /\ LET fr == get_repos(flamingo_manifest.file)
           sr == IF system_manifest.some
                 THEN get_repos(system_manifest.val.file) ELSE Ok(<<>>)
           vr == IF vendor_manifest.some
                 THEN get_repos(vendor_manifest.val.file) ELSE Ok(<<>>)
       IN  IF fr.ok /\ sr.ok /\ vr.ok
           THEN /\ flamingo_repos' = fr.val
                /\ system_repos' = sr.val
                /\ vendor_repos' = vr.val
                /\ main' = "dispatch"
           ELSE /\ main' = "panicked"
                /\ UNCHANGED maps
    /\ UNCHANGED <<args, visited, jobs, queue, st, repos, env>>

\* lines 81-118: the iterator passes one more entry of flamingo_repos, in
\* the map's (arbitrary) order, and hands its job, if any, to the pool
Dispatch(i) ==
    /\ main = "dispatch"
    /\ i \in (1..Len(flamingo_repos)) \ visited
    /\ visited' = visited \cup {i}
    /\ LET merge_data == BuildJob(system_manifest, system_repos,
                                  vendor_manifest, vendor_repos,
                                  source, flamingo_repos[i].key, push)
       IN  IF merge_data.some
           THEN /\ jobs' = Append(jobs, merge_data.val)
                /\ queue' = Append(queue, Len(jobs) + 1)
                /\ st' = Append(st, Queued)
           ELSE UNCHANGED <<jobs, queue, st>>
    /\ UNCHANGED <<args, main, maps, repos, env>>

\* a pool that does not replace a thread whose job panicked
RunningOrDead == {j \in 1..Len(jobs) : st[j].pc \notin {"queued", "done"}}

\* jobs a worker thread is executing; a thread whose job panicked is
\* replaced by the pool, so a panicked job occupies no worker
Running == {j \in 1..Len(jobs) : st[j].pc \notin {"queued", "done", "panicked"}}

\* a join that waits for the channel to drain only
HasQueuedWork == queue # <<>>

\* ThreadPool::join: blocks while a job is queued or active
HasWork == queue # <<>> \/ Running # {}

\* line 119: join returns and merge_upstream with it
Join ==
    /\ main = "dispatch"
    /\ visited = 1..Len(flamingo_repos)
    /\ ~HasWork
    /\ main' = "returned"
    /\ UNCHANGED <<args, maps, visited, jobs, queue, st, repos, env>>

(***************************************************************************)
(* merge_in_repo, one stage at a time.  Each operator gives the possible   *)
(* results of a stage as a set of [l, repo]: the job's local state and its *)
(* checkout afterwards.  md is the job's MergeData, w the outside world of *)
(* its checkout.                                                           *)
(***************************************************************************)
Line(stream, label, fmtargs) == [stream |-> stream, label |-> label, args |-> fmtargs]
Says(l, line) == [l EXCEPT !.console = Append(@, line)]
Did(l, stage, ok, detail) ==
    [l EXCEPT !.trace = Append(@, [stage |-> stage, ok |-> ok, detail |-> detail])]
At(l, pc) == [l EXCEPT !.pc = pc]
\* an unwrap()/expect() on an Err: the thread unwinds, the panic hook prints
Panicked(l, message, fmtargs) == At(Says(l, Line("err", message, fmtargs)), "panicked")

\* line 123: println!("Merging in {}")
StartResults(md, l, repo, w) ==
    {[l |-> At(Says([l EXCEPT !.runs = @ + 1],
                    Line("out", "Merging in", <<md.repo_name>>)), "open"),
      repo |-> repo]}

\* lines 124, 168-173: Repository::open
OpenResults(md, l, repo, w) ==
    IF repo.exists
    THEN {[l |-> At(Did(l, "open", TRUE, md.repo_path), "remote"), repo |-> repo]}
    ELSE {[l |-> At(Says(Did(l, "open", FALSE, md.repo_path),
                         Line("err", "failed to open git repository at",
                              <<md.repo_path>>)), "done"),
           repo |-> repo]}

\* a worker that reports an existing remote as a failed creation
EnsureRemoteResultsStrict(md, l, repo, w) ==
    {IF md.remote_name \notin DOMAIN repo.remotes /\ created = "ok"
     THEN [l |-> At(Did([l EXCEPT !.remote =
                            Some([name |-> md.remote_name,
                                  url |-> md.remote_url])],
                        "remote", TRUE, md.remote_name), "fetch"),
           repo |-> [repo EXCEPT !.remotes = md.remote_name :> md.remote_url @@ @]]
     ELSE [l |-> At(Says(Did(l, "remote", FALSE, md.remote_name),
                         Line("err", "failed to create remote",
                              <<md.remote_name>>)), "done"),
           repo |-> repo]
     : created \in w.create}

\* an existing remote re-pointed to the URL of the job
EnsureRemoteResultsSetUrl(md, l, repo, w) ==
    IF md.remote_name \in DOMAIN repo.remotes
    THEN {IF found = "ok"
          THEN [l |-> At(Did([l EXCEPT !.remote =
                                 Some([name |-> md.remote_name,
                                       url |-> md.remote_url])],
                             "remote", TRUE, md.remote_name), "fetch"),
                repo |-> [repo EXCEPT !.remotes[md.remote_name] = md.remote_url]]
          ELSE [l |-> Panicked(Did(l, "remote", FALSE, md.remote_name),
                               "panicked: unwrap on Err", <<>>),
                repo |-> repo]
          : found \in w.lookup}
    ELSE EnsureRemoteResultsStrict(md, l, repo, w)

\* lines 126-139: repo.remote, and find_remote(..).unwrap() on Exists
EnsureRemoteResults(md, l, repo, w) ==
    IF md.remote_name \in DOMAIN repo.remotes
    THEN {IF found = "ok"
          THEN [l |-> At(Did([l EXCEPT !.remote =
                                 Some([name |-> md.remote_name,
                                       url |-> repo.remotes[md.remote_name]])],
                             "remote", TRUE, md.remote_name), "fetch"),
                repo |-> repo]
          ELSE [l |-> Panicked(Did(l, "remote", FALSE, md.remote_name),
                               "panicked: unwrap on Err", <<>>),
                repo |-> repo]
          : found \in w.lookup}
    ELSE {IF created = "ok"
          THEN [l |-> At(Did([l EXCEPT !.remote =
                                 Some([name |-> md.remote_name,
                                       url |-> md.remote_url])],
                             "remote", TRUE, md.remote_name), "fetch"),
                repo |-> [repo EXCEPT !.remotes = md.remote_name :> md.remote_url @@ @]]
          ELSE [l |-> At(Says(Did(l, "remote", FALSE, md.remote_name),
                              Line("err", "failed to create remote",
                                   <<md.remote_name>>)), "done"),
                repo |-> repo]
          : created \in w.create}

\* lines 140-143, 177-186: remote.fetch of the one revision.  A fetch the
\* outside answers with "hang" never returns: it has no result.
FetchResults(md, l, repo, w) ==
    {IF fetched = "fail"
     THEN [l |-> At(Says(Did(l, "fetch", FALSE, l.remote.val.url),
                         Line("err", "failed to fetch revision",
                              <<md.revision, md.remote_url>>)), "done"),
           repo |-> repo]
     ELSE [l |-> At(Did(l, "fetch", TRUE, l.remote.val.url), "resolve"),
           repo |-> IF fetched = "ok_ref"
                    THEN [repo EXCEPT !.refs = @ \cup {md.revision}]
                    ELSE repo]
     : fetched \in w.fetch \ {"hang"}}

\* lines 144-145: find_reference(..).unwrap(),
\* reference_to_annotated_commit(..).unwrap()
ResolveResults(md, l, repo, w) ==
    IF md.revision \in repo.refs
    THEN {IF annotated = "ok"
          THEN [l |-> At(Did(l, "resolve", TRUE, md.revision), "merge"),
                repo |-> repo]
          ELSE [l |-> Panicked(Did(l, "resolve", FALSE, md.revision),
                               "panicked: unwrap on Err", <<>>),
                repo |-> repo]
          : annotated \in w.annotate}
    ELSE {[l |-> Panicked(Did(l, "resolve", FALSE, md.revision),
                          "panicked: unwrap on Err", <<>>),
           repo |-> repo]}

\* a worker that ignores the job's push flag
AfterMergeAlwaysPush(md) == "push"

\* what follows a merge that returned Ok: lines 153-155
AfterMerge(md) == IF ~md.push THEN "done" ELSE "push"

\* lines 146-155: repo.merge.  The merge refuses to overwrite staged or
\* work-tree changes; otherwise it leaves the repository in the merge state
\* (MERGE_HEAD), with the result, conflict entries included, in the index.
MergeResults(md, l, repo, w) ==
    {LET touches == merged \in {"changes", "conflict"}
     IN  IF merged = "error" \/ (touches /\ repo.staged)
         THEN [l |-> At(Says(Did(l, "merge", FALSE, md.revision),
                             Line("err", "failed to merge revision",
                                  <<md.revision, md.remote_url, md.repo_name>>)),
                        "done"),
               repo |-> repo]
         ELSE [l |-> At(Did(l, "merge", TRUE, md.revision), AfterMerge(md)),
               repo |-> [repo EXCEPT !.state = "merge",
                                     !.conflicts = @ \/ merged = "conflict",
                                     !.staged = @ \/ touches]]
     : merged \in w.merge}

\* the refspec of line 199
PushRefspec == [src |-> "HEAD", dst |-> "refs/heads/" \o FLAMINGO_BRANCH]

\* lines 156-166, 188-202: push; find_remote(FLAMINGO_REMOTE).expect(..), the
\* credentials callback's unwrap(), Remote::push
PushResults(md, l, repo, w) ==
    IF FLAMINGO_REMOTE \in DOMAIN repo.remotes
    THEN {CASE pushed = "ok" ->
                 [l |-> At(Says(Did(l, "push", TRUE, FLAMINGO_REMOTE),
                                Line("out", "Successfully pushed", <<md.repo_name>>)),
                           "done"),
                  repo |-> [repo EXCEPT !.pushed =
                               Append(@, [remote |-> FLAMINGO_REMOTE,
                                          refspec |-> PushRefspec,
                                          head |-> repo.head])]]
            [] pushed = "fail" ->
                 [l |-> At(Says(Did(l, "push", FALSE, FLAMINGO_REMOTE),
                                Line("err", "failed to push", <<md.repo_name>>)),
                           "done"),
                  repo |-> repo]
            [] OTHER ->
                 [l |-> Panicked(Did(l, "push", FALSE, FLAMINGO_REMOTE),
                                 "panicked: unwrap on None", <<>>),
                  repo |-> repo]
          : pushed \in w.push}
    ELSE {[l |-> Panicked(Did(l, "push", FALSE, FLAMINGO_REMOTE),
                          "panicked: Flamingo remote not found in", <<md.repo_name>>),
           repo |-> repo]}

(***************************************************************************)
(* The worker threads of the pool.  Job j runs on its own checkout,        *)
(* repos[jobs[j].repo_path].                                               *)
(***************************************************************************)
CheckoutOf(j) == repos[jobs[j].repo_path]
WorldOf(j) == world[jobs[j].repo_path]

Perform(j, results) ==
    \E o \in results :
        /\ st' = [st EXCEPT ![j] = o.l]
        /\ repos' = [repos EXCEPT ![jobs[j].repo_path] = o.repo]

\* a pool in which one job at a time is executed, whatever its size
NoJobRunning == Running = {}

\* a worker thread is waiting on the channel
FreeWorker == Cardinality(Running) < thread_count

\* a free worker receives the oldest queued job and starts merge_in_repo
Start(j) ==
    /\ queue # <<>>
    /\ j = Head(queue)
    /\ FreeWorker
    /\ queue' = Tail(queue)
    /\ Perform(j, StartResults(jobs[j], st[j], CheckoutOf(j), WorldOf(j)))
    /\ UNCHANGED <<args, main, maps, visited, jobs, env>>

OpenRepo(j) ==
    /\ st[j].pc = "open"
    /\ Perform(j, OpenResults(jobs[j], st[j], CheckoutOf(j), WorldOf(j)))
    /\ UNCHANGED <<args, main, maps, visited, jobs, queue, env>>

EnsureRemote(j) ==
    /\ st[j].pc = "remote"
    /\ Perform(j, EnsureRemoteResults(jobs[j], st[j], CheckoutOf(j), WorldOf(j)))
    /\ UNCHANGED <<args, main, maps, visited, jobs, queue, env>>

Fetch(j) ==
    /\ st[j].pc = "fetch"
    /\ Perform(j, FetchResults(jobs[j], st[j], CheckoutOf(j), WorldOf(j)))
    /\ UNCHANGED <<args, main, maps, visited, jobs, queue, env>>

ResolveReference(j) ==
    /\ st[j].pc = "resolve"
    /\ Perform(j, ResolveResults(jobs[j], st[j], CheckoutOf(j), WorldOf(j)))
    /\ UNCHANGED <<args, main, maps, visited, jobs, queue, env>>

Merge(j) ==
    /\ st[j].pc = "merge"
    /\ Perform(j, MergeResults(jobs[j], st[j], CheckoutOf(j), WorldOf(j)))
    /\ UNCHANGED <<args, main, maps, visited, jobs, queue, env>>

Push(j) ==
    /\ st[j].pc = "push"
    /\ Perform(j, PushResults(jobs[j], st[j], CheckoutOf(j), WorldOf(j)))
    /\ UNCHANGED <<args, main, maps, visited, jobs, queue, env>>

Next ==
    \/ ReadRepos
    \/ \E i \in 1..Len(flamingo_repos) : Dispatch(i)
    \/ Join
    \/ \E j \in 1..Len(jobs) : Start(j)
    \/ \E j \in 1..Len(jobs) : OpenRepo(j)
    \/ \E j \in 1..Len(jobs) : EnsureRemote(j)
    \/ \E j \in 1..Len(jobs) : Fetch(j)
    \/ \E j \in 1..Len(jobs) : ResolveReference(j)
    \/ \E j \in 1..Len(jobs) : Merge(j)
    \/ \E j \in 1..Len(jobs) : Push(j)

Spec == Init /\ [][Next]_vars

(***************************************************************************)
(* merge_in_repo as one call: the stages in sequence on a checkout nobody  *)
(* else touches, in a world that gives one answer to each call.            *)
(***************************************************************************)
StageResults(md, l, repo, w) ==
    CASE l.pc = "queued"  -> StartResults(md, l, repo, w)
      [] l.pc = "open"    -> OpenResults(md, l, repo, w)
      [] l.pc = "remote"  -> EnsureRemoteResults(md, l, repo, w)
      [] l.pc = "fetch"   -> FetchResults(md, l, repo, w)
      [] l.pc = "resolve" -> ResolveResults(md, l, repo, w)
      [] l.pc = "merge"   -> MergeResults(md, l, repo, w)
      [] l.pc = "push"    -> PushResults(md, l, repo, w)

RECURSIVE merge_in_repo(_, _, _, _)
merge_in_repo(md, l, repo, w) ==
    IF l.pc \in {"done", "panicked"}
    THEN [l |-> l, repo |-> repo]
    ELSE LET o == CHOOSE x \in StageResults(md, l, repo, w) : TRUE
         IN  merge_in_repo(md, o.l, o.repo, w)

(***************************************************************************)
(* SpecResolve: the job builder alone, over every baseline and upstream    *)
(* manifest file of up to MaxChildren nodes.  The pool's threads do not    *)
(* run.                                                                    *)
(***************************************************************************)
RECURSIVE SeqsUpTo(_, _)
SeqsUpTo(S, n) ==
    IF n = 0 THEN {<<>>}
    ELSE LET shorter == SeqsUpTo(S, n - 1)
         IN  shorter \cup {Append(q, x) : q \in shorter, x \in S}

BaselineNodes == {Project("art", "flamingo_art"),
                  Project("bionic", "flamingo_bionic"),
                  Element("remote", [name |-> "flamingo"])}
SystemNodes == {Project("art", "platform/art"),
                Project("art", "platform/art2"),
                Project("bionic", "platform/bionic")}
VendorNodes == {Project("art", "qssi/art"),
                Project("bionic", "qssi/bionic"),
                Element("project", [path |-> "bionic"])}

InitResolve ==
    /\ source = SourceRoot
    /\ flamingo_manifest \in
          {Manifest("flamingo", "", File(c)) : c \in SeqsUpTo(BaselineNodes, MaxChildren)}
    /\ system_manifest \in
          {None} \cup {Some(Manifest("system", SystemTag, File(c))) :
                          c \in SeqsUpTo(SystemNodes, MaxChildren)}
    /\ vendor_manifest \in
          {None} \cup {Some(Manifest("vendor", VendorTag, File(c))) :
                          c \in SeqsUpTo(VendorNodes, MaxChildren)}
    /\ thread_count = 1
    /\ push \in BOOLEAN
    /\ repos = [rp \in RepoPaths |-> FreshCheckout]
    /\ initial_repos = repos
    /\ world = [rp \in RepoPaths |-> AnyWorld]
    /\ NotStarted

NextResolve ==
    \/ ReadRepos
    \/ \E i \in 1..Len(flamingo_repos) : Dispatch(i)

SpecResolve == InitResolve /\ [][NextResolve]_vars

(***************************************************************************)
(* SpecPool: the whole run with two jobs (art from the system upstream,    *)
(* bionic from the vendor upstream), every pool size, and for each         *)
(* checkout a world that answers each call in one fixed way.               *)
(***************************************************************************)
FixedWorld(create, lookup, fetch, annotate, merge, pushed) ==
    [create |-> {create}, lookup |-> {lookup}, fetch |-> {fetch},
     annotate |-> {annotate}, merge |-> {merge}, push |-> {pushed}]

FixedWorlds ==
    {FixedWorld("ok", "ok", "ok_ref", "ok", "changes", "ok"),
     FixedWorld("ok", "ok", "ok_ref", "ok", "uptodate", "ok"),
     FixedWorld("ok", "ok", "ok_ref", "ok", "conflict", "ok"),
     FixedWorld("ok", "ok", "ok_ref", "ok", "error", "ok"),
     FixedWorld("error", "fail", "ok_ref", "ok", "changes", "ok"),
     FixedWorld("ok", "ok", "fail", "ok", "changes", "ok"),
     FixedWorld("ok", "ok", "ok", "ok", "changes", "ok"),
     FixedWorld("ok", "ok", "ok_ref", "fail", "changes", "ok"),
     FixedWorld("ok", "ok", "ok_ref", "ok", "changes", "fail"),
     FixedWorld("ok", "ok", "ok_ref", "ok", "changes", "panic")}

PoolCheckouts == {FreshCheckout, UnpublishedCheckout, MidMergeCheckout}

InitPool ==
    /\ source = SourceRoot
    /\ flamingo_manifest = Manifest("flamingo", "", BaselineFile)
    /\ system_manifest =
          Some(Manifest("system", SystemTag, File(<<Project("art", "platform/art")>>)))
    /\ vendor_manifest =
          Some(Manifest("vendor", VendorTag,
                        File(<<Project("art", "qssi/art"),
                               Project("bionic", "qssi/bionic")>>)))
    /\ thread_count \in 1..MaxThreads
    /\ push \in BOOLEAN
    /\ repos \in {r \in [RepoPaths -> PoolCheckouts] : r[SourceRoot] = FreshCheckout}
    /\ initial_repos = repos
    /\ world \in {x \in [RepoPaths -> FixedWorlds] :
                     x[SourceRoot] = FixedWorld("ok", "ok", "ok_ref", "ok", "changes", "ok")}
    /\ NotStarted

SpecPool == InitPool /\ [][Next]_vars

(***************************************************************************)
(* Remote registration (git.rs).  Each operator gives the possible results *)
(* of a call as a set of [ret, repo]: ret is Some(the Result returned) or  *)
(* None when the call panicked; repo is the checkout afterwards.           *)
(***************************************************************************)
RemoteHandle(name, url) == [name |-> name, url |-> url]

\* Repository::remote: Err(Exists) when the name is registered already
remote_create(repo, name, url, w) ==
    IF name \in DOMAIN repo.remotes
    THEN {[result |-> Err("Exists"), repo |-> repo]}
    ELSE {IF created = "ok"
          THEN [result |-> Ok(RemoteHandle(name, url)),
                repo |-> [repo EXCEPT !.remotes = name :> url @@ @]]
          ELSE [result |-> Err("Other"), repo |-> repo]
          : created \in w.create}

\* Repository::find_remote
find_remote(repo, name, w) ==
    IF name \in DOMAIN repo.remotes
    THEN {IF found = "ok" THEN Ok(RemoteHandle(name, repo.remotes[name]))
                          ELSE Err("Other")
          : found \in w.lookup}
    ELSE {Err("NotFound")}

\* a registration that reports an existing remote as a failure
get_or_create_remote_strict(repo, name, url, w) ==
    {[ret |-> IF c.result.ok THEN Some(Ok(c.result.val))
              ELSE Some(Err("failed to create remote " \o name)),
      repo |-> c.repo]
     : c \in remote_create(repo, name, url, w)}

get_or_create_remote(repo, name, url, w) ==
    UNION {IF c.result.ok
           THEN {[ret |-> Some(Ok(c.result.val)), repo |-> c.repo]}
           ELSE IF c.result.err = "Exists"
                THEN {[ret |-> IF f.ok THEN Some(Ok(f.val)) ELSE None,
                       repo |-> c.repo]
                      : f \in find_remote(c.repo, name, w)}
                ELSE {[ret |-> Some(Err("failed to create remote " \o name)),
                       repo |-> c.repo]}
           : c \in remote_create(repo, name, url, w)}

try_create_remote(repo, name, url, w) ==
    {[ret |-> IF c.result.ok \/ c.result.err = "Exists"
              THEN Some(Ok("()"))
              ELSE Some(Err("failed to create remote " \o name)),
      repo |-> c.repo]
     : c \in remote_create(repo, name, url, w)}

(***************************************************************************)
(* SpecRemote: up to MaxCalls calls of get_or_create_remote and            *)
(* try_create_remote on one checkout, with names and URLs drawn from small *)
(* sets.  A call that panicked ends the calling thread: no call follows.   *)
(***************************************************************************)
RemotePath == RepoPath(SourceRoot, "art")
RemoteNames == {SystemRemote, VendorRemote}
RemoteUrls == {get_remote_url(Manifest("system", SystemTag, Unreadable))
                   \o "/platform/art",
               StaleUrl}
RemoteCheckouts == {FreshCheckout, UnpublishedCheckout, UsedCheckout}

InitRemote ==
    /\ source = SourceRoot
    /\ flamingo_manifest = Manifest("flamingo", "", BaselineFile)
    /\ system_manifest = None
    /\ vendor_manifest = None
    /\ thread_count = 1
    /\ push = FALSE
    /\ repos \in {r \in [RepoPaths -> RemoteCheckouts] :
                     \A rp \in RepoPaths \ {RemotePath} : r[rp] = FreshCheckout}
    /\ initial_repos = repos
    /\ world = [rp \in RepoPaths |-> AnyWorld]
    /\ NotStarted

CanCall ==
    /\ Len(calls) < MaxCalls
    /\ \A i \in 1..Len(calls) : calls[i].ret.some

Called(op, name, url, o) ==
    /\ repos' = [repos EXCEPT ![RemotePath] = o.repo]
    /\ calls' = Append(calls, [op |-> op, name |-> name, url |-> url,
                               ret |-> o.ret])
    /\ UNCHANGED <<args, main, maps, visited, jobs, queue, st, world,
                   initial_repos, previous, input>>

GetOrCreateRemote(name, url) ==
    /\ CanCall
    /\ \E o \in get_or_create_remote(repos[RemotePath], name, url,
                                     world[RemotePath]) :
          Called("get_or_create_remote", name, url, o)

TryCreateRemote(name, url) ==
    /\ CanCall
    /\ \E o \in try_create_remote(repos[RemotePath], name, url,
                                  world[RemotePath]) :
          Called("try_create_remote", name, url, o)

NextRemote ==
    \/ \E name \in RemoteNames, url \in RemoteUrls : GetOrCreateRemote(name, url)
    \/ \E name \in RemoteNames, url \in RemoteUrls : TryCreateRemote(name, url)

SpecRemote == InitRemote /\ [][NextRemote]_vars

(***************************************************************************)
(* SpecFatal: the whole run with inputs that cannot be used: a baseline or *)
(* upstream manifest file that cannot be read or parsed, a source root     *)
(* that does not exist (no checkout below it can be opened).  Where the    *)
(* checkouts exist, every external call succeeds.                          *)
(***************************************************************************)
HealthyWorld == FixedWorld("ok", "ok", "ok_ref", "ok", "changes", "ok")

InitFatal ==
    /\ source = SourceRoot
    /\ flamingo_manifest \in
          {Manifest("flamingo", "", f) : f \in {BaselineFile, Unreadable}}
    /\ system_manifest \in
          {None} \cup {Some(Manifest("system", SystemTag, f)) :
                          f \in {File(<<Project("art", "platform/art")>>), Unreadable}}
    /\ vendor_manifest \in
          {None} \cup {Some(Manifest("vendor", VendorTag, f)) :
                          f \in {File(<<Project("bionic", "qssi/bionic")>>), Unreadable}}
    /\ thread_count \in 1..MaxThreads
    /\ push \in BOOLEAN
    /\ repos \in {[rp \in RepoPaths |-> FreshCheckout],
                  [rp \in RepoPaths |-> MissingCheckout]}
    /\ initial_repos = repos
    /\ world = [rp \in RepoPaths |-> HealthyWorld]
    /\ NotStarted

SpecFatal == InitFatal /\ [][Next]_vars

(***************************************************************************)
(* SpecHang: the whole run with two jobs (art from the system upstream,    *)
(* bionic from the vendor upstream) on fresh checkouts, where the fetch of *)
(* a checkout either succeeds or never returns.  The operating system runs *)
(* every thread that can take a step: the calling thread and each worker   *)
(* are weakly fair.                                                        *)
(***************************************************************************)
HangingWorld == FixedWorld("ok", "ok", "hang", "ok", "changes", "ok")

InitHang ==
    /\ source = SourceRoot
    /\ flamingo_manifest = Manifest("flamingo", "", BaselineFile)
    /\ system_manifest =
          Some(Manifest("system", SystemTag, File(<<Project("art", "platform/art")>>)))
    /\ vendor_manifest =
          Some(Manifest("vendor", VendorTag,
                        File(<<Project("bionic", "qssi/bionic")>>)))
    /\ thread_count \in 1..MaxThreads
    /\ push \in BOOLEAN
    /\ repos = [rp \in RepoPaths |-> FreshCheckout]
    /\ initial_repos = repos
    /\ world \in {x \in [RepoPaths -> {HealthyWorld, HangingWorld}] :
                     x[SourceRoot] = HealthyWorld}
    /\ NotStarted

\* the steps of the worker thread that executes job j
WorkerOf(j) ==
    /\ j \in 1..Len(jobs)
    /\ \/ Start(j) \/ OpenRepo(j) \/ EnsureRemote(j) \/ Fetch(j)
       \/ ResolveReference(j) \/ Merge(j) \/ Push(j)

\* the steps of the thread that called merge_upstream
Caller ==
    \/ ReadRepos
    \/ \E i \in 1..Len(flamingo_repos) : Dispatch(i)
    \/ Join

SpecHang ==
    /\ InitHang /\ [][Next]_vars
    /\ WF_vars(Caller)
    /\ \A j \in 1..Cardinality(Paths) : WF_vars(WorkerOf(j))

(***************************************************************************)
(* SpecRerun: the tool is run, and after merge_upstream has returned it is *)
(* run again with the same arguments on the checkouts the earlier run left *)
(* behind.  HEAD never moves (no stage commits), so what the upstream      *)
(* holds relative to HEAD, and with it each call's answer, is the same in  *)
(* every run.                                                              *)
(***************************************************************************)
RerunWorlds ==
    {FixedWorld("ok", "ok", "ok_ref", "ok", "changes", "ok"),
     FixedWorld("ok", "ok", "ok_ref", "ok", "uptodate", "ok"),
     FixedWorld("ok", "ok", "fail", "ok", "changes", "ok")}

InitRerun ==
    /\ source = SourceRoot
    /\ flamingo_manifest = Manifest("flamingo", "", BaselineFile)
    /\ system_manifest =
          Some(Manifest("system", SystemTag, File(<<Project("art", "platform/art")>>)))
    /\ vendor_manifest =
          Some(Manifest("vendor", VendorTag,
                        File(<<Project("bionic", "qssi/bionic")>>)))
    /\ thread_count \in 1..MaxThreads
    /\ push \in BOOLEAN
    /\ repos \in {r \in [RepoPaths -> {FreshCheckout, UsedCheckout}] :
                     r[SourceRoot] = FreshCheckout}
    /\ initial_repos = repos
    /\ world \in {x \in [RepoPaths -> RerunWorlds] : x[SourceRoot] = HealthyWorld}
    /\ NotStarted

\* main.rs main: the tool is started again; merge_upstream is called with
\* the same arguments and has done nothing yet
Rerun ==
    /\ main = "returned"
    /\ Len(previous) < MaxReruns
    /\ previous' = Append(previous, [jobs |-> jobs, st |-> st, repos |-> repos])
    /\ main' = "start"
    /\ flamingo_repos' = <<>> /\ system_repos' = <<>> /\ vendor_repos' = <<>>
    /\ visited' = {}
    /\ jobs' = <<>> /\ queue' = <<>> /\ st' = <<>>
    /\ UNCHANGED <<args, repos, world, initial_repos, calls, input>>

NextRerun ==
    \/ Next
    \/ Rerun

SpecRerun == InitRerun /\ [][NextRerun]_vars

(***************************************************************************)
(* Properties.                                                             *)
(***************************************************************************)
Finished(j) == st[j].pc \in {"done", "panicked"}
AllVisited == visited = 1..Len(flamingo_repos)
Returned == main = "returned"
Stages(j) == [i \in 1..Len(st[j].trace) |-> st[j].trace[i].stage]
Entered(j, stage) == \E i \in 1..Len(st[j].trace) : st[j].trace[i].stage = stage
Succeeded(j, stage) ==
    \E i \in 1..Len(st[j].trace) :
        st[j].trace[i].stage = stage /\ st[j].trace[i].ok
Failed(j, stage) ==
    \E i \in 1..Len(st[j].trace) :
        st[j].trace[i].stage = stage /\ ~st[j].trace[i].ok
\* entries of flamingo_repos for which the builder's closure yields a job
Built ==
    {i \in 1..Len(flamingo_repos) :
        BuildJob(system_manifest, system_repos, vendor_manifest, vendor_repos,
                 source, flamingo_repos[i].key, push).some}

\* C1: merge_upstream runs every job it builds exactly once (no job is ever
\* started twice), and when it returns every entry of the baseline map has
\* been visited, every built job has been dispatched, started once and has
\* finished (normally or by a panic), for every worker count 1..MaxThreads,
\* worker counts above the job count included.
EveryJobOnceBeforeReturn ==
    /\ \A j \in 1..Len(jobs) :
          /\ st[j].runs <= 1
          /\ st[j].pc # "queued" => st[j].runs = 1
    /\ Returned =>
          /\ AllVisited
          /\ Len(jobs) = Cardinality(Built)
          /\ queue = <<>>
          /\ \A j \in 1..Len(jobs) : st[j].runs = 1 /\ Finished(j)

\* C1 witness: the call has returned with more workers than jobs, two jobs
\* executed, one finished by a panic and one by a successful push.
ReturnedWithIdleWorkers ==
    /\ Returned
    /\ Len(jobs) = 2
    /\ thread_count > Len(jobs)
    /\ \E j, k \in 1..Len(jobs) :
          /\ st[j].pc = "panicked"
          /\ st[k].pc = "done" /\ Succeeded(k, "push")

\* a step of job j: its local state changes
Steps(j) == j <= Len(st) /\ st'[j] # st[j]

\* C2 (frame): a step of one job changes neither the local state (stage,
\* trace, console, remote handle) nor the checkout of any other job.
OwnStateOnly ==
    \A j, k \in 1..Len(jobs) :
        (j # k /\ Steps(j)) =>
            /\ st'[k] = st[k]
            /\ repos'[jobs[k].repo_path] = repos[jobs[k].repo_path]

\* C2 (progress): whenever a job is waiting in the queue and no job is in
\* progress, whatever the other jobs ended with (errors and panics
\* included), a worker can start the waiting job.
SiblingCanStart ==
    (/\ queue # <<>>
     /\ \A j \in 1..Len(jobs) : st[j].pc = "queued" \/ Finished(j))
    => ENABLED Start(Head(queue))

\* C2: a failure of one job at any stage does not prevent a sibling from
\* running to completion and reporting its own outcome, and no job reads or
\* writes state of another job: a waiting job can always be started once the
\* workers are free, and each step of a job leaves every other job's local
\* state and checkout unchanged.
FailuresAreIsolated == [](SiblingCanStart) /\ [][OwnStateOnly]_vars

\* C2 witness: with a single worker, the first job has panicked while
\* resolving the reference and its sibling, started after it, has finished
\* its merge and reported a successful push.
SiblingFinishedAfterFailure ==
    /\ thread_count = 1
    /\ Len(jobs) = 2
    /\ st[1].pc = "panicked" /\ Failed(1, "resolve")
    /\ st[2].pc = "done" /\ Succeeded(2, "push")
    /\ st[2].console[Len(st[2].console)].label = "Successfully pushed"

\* C3: a job whose merge left conflict entries in the index stops there:
\* its checkout stays in the merge state, no commit has been created, and no
\* push is attempted (the job neither stands at the push stage nor has a
\* push in its trace), even when its push flag is set.
ConflictStopsJob ==
    \A j \in 1..Len(jobs) :
        (Succeeded(j, "merge") /\ CheckoutOf(j).conflicts) =>
            /\ CheckoutOf(j).state = "merge"
            /\ CheckoutOf(j).commits = initial_repos[jobs[j].repo_path].commits
            /\ st[j].pc # "push"
            /\ ~Entered(j, "push")

\* the order of stages the specification gives for one job
ClaimedStages == <<"open", "remote", "fetch", "resolve", "merge",
                   "conflictcheck", "commit", "cleanup", "push">>

\* C4: the stages a job has performed are, in this order, OpenRepo,
\* EnsureRemote, Fetch, ResolveReference, Merge, ConflictCheck,
\* CommitIfChanged, Cleanup, PushIfRequested; a stage is entered only after
\* every earlier one succeeded, and none after one failed.
StagesAreHardGates ==
    \A j \in 1..Len(jobs) :
        /\ Len(st[j].trace) <= Len(ClaimedStages)
        /\ \A i \in 1..Len(st[j].trace) :
              /\ i <= Len(ClaimedStages) => st[j].trace[i].stage = ClaimedStages[i]
              /\ i < Len(st[j].trace) => st[j].trace[i].ok

\* C5: no failure from EnsureRemote through PushIfRequested (a failed lookup
\* of the existing remote, a revision that does not resolve, a missing
\* publish remote included) makes the worker panic: every job that failed a
\* stage has returned normally with an error line as its last console line.
FailuresAreCaught ==
    \A j \in 1..Len(jobs) :
        /\ st[j].pc # "panicked"
        /\ (st[j].trace # <<>> /\ ~st[j].trace[Len(st[j].trace)].ok) =>
              /\ st[j].pc = "done"
              /\ st[j].console[Len(st[j].console)].stream = "err"

(***************************************************************************)
(* The mappings as the manifest files state them: a path belongs to a      *)
(* file's mapping when some child element carries both a path and a name   *)
(* attribute with that path; its name is that of the last such element.    *)
(***************************************************************************)
Carriers(file, p) ==
    {i \in 1..Len(file.children) :
        /\ file.children[i].kind = "element"
        /\ {"path", "name"} \subseteq DOMAIN file.children[i].attributes
        /\ file.children[i].attributes["path"] = p}
PathsOf(file) == {p \in Paths : Carriers(file, p) # {}}
NameIn(file, p) ==
    LET last == CHOOSE i \in Carriers(file, p) : \A k \in Carriers(file, p) : k <= i
    IN  file.children[last].attributes["name"]
BaselinePaths == PathsOf(flamingo_manifest.file)
SystemPaths == IF system_manifest.some THEN PathsOf(system_manifest.val.file) ELSE {}
VendorPaths == IF vendor_manifest.some THEN PathsOf(vendor_manifest.val.file) ELSE {}
JobsFor(p) == {j \in 1..Len(jobs) : jobs[j].repo_name = p}
\* the iterator has passed every entry of the baseline map
BuilderDone == main = "dispatch" /\ AllVisited

\* C6: once the builder is done, every baseline path that is in exactly one
\* of the system and vendor mappings has exactly one job, and that job has
\* the remote name, revision and URL of the upstream holding the path (URL =
\* CLO base + "/" + the upstream-side name) and repo path = source + "/" +
\* path.
OneJobFromTheOnlyUpstream ==
    BuilderDone =>
        \A p \in BaselinePaths :
            /\ (p \in SystemPaths /\ p \notin VendorPaths) =>
                  /\ Cardinality(JobsFor(p)) = 1
                  /\ \A j \in JobsFor(p) :
                        /\ jobs[j].remote_name = "clo_system"
                        /\ jobs[j].revision = "refs/tags/S1"
                        /\ jobs[j].remote_url =
                              "https://git.codelinaro.org/clo/la/"
                                  \o NameIn(system_manifest.val.file, p)
                        /\ jobs[j].repo_path = "/src/" \o p
            /\ (p \in VendorPaths /\ p \notin SystemPaths) =>
                  /\ Cardinality(JobsFor(p)) = 1
                  /\ \A j \in JobsFor(p) :
                        /\ jobs[j].remote_name = "clo_vendor"
                        /\ jobs[j].revision = "refs/tags/V1"
                        /\ jobs[j].remote_url =
                              "https://git.codelinaro.org/clo/la/"
                                  \o NameIn(vendor_manifest.val.file, p)
                        /\ jobs[j].repo_path = "/src/" \o p

\* C6 witness: the builder is done; art is in the system mapping only,
\* listed twice there under different names, bionic in the vendor mapping
\* only, and each has its job.
JobsFromDisjointUpstreams ==
    /\ BuilderDone
    /\ BaselinePaths = {"art", "bionic"}
    /\ system_manifest.some /\ SystemPaths = {"art"}
    /\ Len(system_manifest.val.file.children) = 2
    /\ NameIn(system_manifest.val.file, "art") = "platform/art2"
    /\ vendor_manifest.some /\ VendorPaths = {"bionic"}
    /\ JobsFor("art") # {} /\ JobsFor("bionic") # {}

\* C7: once the builder is done, a baseline path that is in both upstream
\* mappings has exactly one job, and it carries the system upstream's remote
\* name, revision and URL with the system-side repository name.
SystemWinsTies ==
    BuilderDone =>
        \A p \in BaselinePaths \cap SystemPaths \cap VendorPaths :
            /\ Cardinality(JobsFor(p)) = 1
            /\ \A j \in JobsFor(p) :
                  /\ jobs[j].remote_name = "clo_system"
                  /\ jobs[j].revision = "refs/tags/S1"
                  /\ jobs[j].remote_url =
                        "https://git.codelinaro.org/clo/la/"
                            \o NameIn(system_manifest.val.file, p)

\* C7 witness: the builder is done and art, claimed by both upstreams, has
\* its job.
TieResolved ==
    /\ BuilderDone
    /\ "art" \in BaselinePaths \cap SystemPaths \cap VendorPaths
    /\ JobsFor("art") # {}

\* C8: at every point, no job exists for a path outside the baseline
\* mapping or for a baseline path that neither upstream mapping holds.
NoJobWithoutUpstream ==
    \A j \in 1..Len(jobs) :
        /\ jobs[j].repo_name \in BaselinePaths
        /\ jobs[j].repo_name \in SystemPaths \cup VendorPaths

\* C8 witness: the builder is done; bionic is a baseline path that neither
\* upstream holds, art is held by the vendor upstream but is not a baseline
\* path; no job was built.
UntrackedPathsSkipped ==
    /\ BuilderDone
    /\ BaselinePaths = {"bionic"}
    /\ vendor_manifest.some /\ VendorPaths = {"art"}
    /\ SystemPaths = {}
    /\ jobs = <<>>

\* C9: at every point, no two jobs have the same repo_path: at most one job
\* is created per checkout.
OneJobPerCheckout ==
    \A j, k \in 1..Len(jobs) : j # k => jobs[j].repo_path # jobs[k].repo_path

\* C9 witness: the baseline file lists art twice (two elements, one path),
\* the system upstream holds art, the builder is done and one job exists.
DuplicatePathOneJob ==
    /\ BuilderDone
    /\ Len(flamingo_manifest.file.children) = 2
    /\ Cardinality(Carriers(flamingo_manifest.file, "art")) = 2
    /\ "art" \in SystemPaths
    /\ Len(jobs) = 1

\* what job j ends with, and leaves its checkout in, when merge_in_repo
\* runs it by itself on the checkout as it was when the run began
Alone(j) ==
    merge_in_repo(jobs[j], Queued, initial_repos[jobs[j].repo_path],
                  world[jobs[j].repo_path])

\* C10: when merge_upstream has returned, whatever the pool size
\* (1..MaxThreads) and the interleaving, every job's outcome (final stage,
\* stages performed, console lines) and its checkout are those of the job
\* run by itself from the initial checkout, and every other checkout is as
\* it was: outcomes and final repository states do not depend on the pool
\* size.
PoolSizeIrrelevant ==
    Returned =>
        /\ \A j \in 1..Len(jobs) :
              /\ st[j] = Alone(j).l
              /\ repos[jobs[j].repo_path] = Alone(j).repo
        /\ \A rp \in RepoPaths :
              (\A j \in 1..Len(jobs) : jobs[j].repo_path # rp) =>
                  repos[rp] = initial_repos[rp]

\* C10 witness: a pool of two workers has returned from two jobs with
\* different outcomes, one pushed, the other stopped by a failed merge.
ReturnedWithMixedOutcomes ==
    /\ Returned
    /\ thread_count = 2
    /\ Len(jobs) = 2
    /\ \E j, k \in 1..Len(jobs) :
          /\ Succeeded(j, "push")
          /\ Failed(k, "merge")

\* the checkout of job j as it was when the run began
InitialCheckoutOf(j) == initial_repos[jobs[j].repo_path]
\* the one answer the outside gives to job j's repo.merge (SpecPool)
MergeAnswers(j, answer) == WorldOf(j).merge = {answer}

\* C11: a job whose target revision is already merged into the local branch
\* (repo.merge finds nothing to change) ends with no new commit (commit count
\* and HEAD as before), the index and work tree as before, and the checkout
\* not in the merging state.
UpToDateLeavesNoTrace ==
    \A j \in 1..Len(jobs) :
        (Finished(j) /\ Succeeded(j, "merge") /\ MergeAnswers(j, "uptodate")) =>
            /\ CheckoutOf(j).commits = InitialCheckoutOf(j).commits
            /\ CheckoutOf(j).head = InitialCheckoutOf(j).head
            /\ CheckoutOf(j).log = InitialCheckoutOf(j).log
            /\ CheckoutOf(j).staged = InitialCheckoutOf(j).staged
            /\ CheckoutOf(j).state = "none"

\* the message the specification gives the merge commit of job j
MergeMessage(j) ==
    LET tag == IF jobs[j].remote_name = SystemRemote THEN SystemTag ELSE VendorTag
    IN  "Merge tag '" \o tag \o "' of " \o jobs[j].remote_url \o " into HEAD"

\* C12: a job that merged new changes without conflicts has created exactly
\* one commit on the branch: its only parent is the previous HEAD, author
\* and committer are the default signature, its message is "Merge tag
\* '<tag>' of <remoteUrl> into HEAD", and HEAD is that commit.
MergeCreatesOneCommit ==
    \A j \in 1..Len(jobs) :
        (Finished(j) /\ Succeeded(j, "merge") /\ MergeAnswers(j, "changes")) =>
            /\ CheckoutOf(j).commits = InitialCheckoutOf(j).commits + 1
            /\ Len(CheckoutOf(j).log) = Len(InitialCheckoutOf(j).log) + 1
            /\ LET commit == CheckoutOf(j).log[Len(CheckoutOf(j).log)]
               IN  /\ commit.parents = <<InitialCheckoutOf(j).head>>
                   /\ commit.author = DefaultSignature
                   /\ commit.committer = DefaultSignature
                   /\ commit.message = MergeMessage(j)
                   /\ CheckoutOf(j).head = commit.id

\* C13: a job that opened its checkout and finished without conflicts in
\* the index (up to date, merged, or failed at a later stage) leaves the
\* checkout in the normal state, and a job standing at the push stage has
\* its checkout in the normal state already.
NoMergeStateLeftBehind ==
    \A j \in 1..Len(jobs) :
        /\ (Finished(j) /\ Succeeded(j, "open") /\ ~CheckoutOf(j).conflicts) =>
              CheckoutOf(j).state = "none"
        /\ st[j].pc = "push" => CheckoutOf(j).state = "none"

\* the stages merge_in_repo performs before it pushes
StagesBeforePush == <<"open", "remote", "fetch", "resolve", "merge">>

\* job j has performed every stage before the push, each with success
ReadyToPush(j) ==
    /\ Len(st[j].trace) >= Len(StagesBeforePush)
    /\ \A i \in 1..Len(StagesBeforePush) :
          st[j].trace[i].stage = StagesBeforePush[i] /\ st[j].trace[i].ok

PushFailureReported ==
    \A j \in 1..Len(jobs) :
        Failed(j, "push") =>
            /\ st[j].pc = "done"
            /\ st[j].console[Len(st[j].console)] =
                  [stream |-> "err", label |-> "failed to push",
                   args |-> <<jobs[j].repo_name>>]
            /\ CheckoutOf(j).head = InitialCheckoutOf(j).head
            /\ CheckoutOf(j).commits = InitialCheckoutOf(j).commits
            /\ CheckoutOf(j).log = InitialCheckoutOf(j).log
            /\ CheckoutOf(j).pushed = <<>>

\* calls i and k are calls of get_or_create_remote with the same arguments
SameEnsure(i, k) ==
    /\ calls[i].op = "get_or_create_remote"
    /\ calls[k].op = "get_or_create_remote"
    /\ calls[i].name = calls[k].name
    /\ calls[i].url = calls[k].url

\* C16: when get_or_create_remote is called again with the (name, url) of
\* an earlier call that returned Ok, the later call (if it returns: the
\* lookup of the existing remote did not fail) returns Ok too, with the same
\* remote (same name and URL) as the earlier call, and the checkout holds
\* that name with that URL; a call never registers a name other than its
\* own.
EnsureRemoteIdempotent ==
    /\ \A i, k \in 1..Len(calls) :
          (/\ i < k /\ SameEnsure(i, k)
           /\ calls[i].ret.some /\ calls[i].ret.val.ok
           /\ calls[k].ret.some) =>
              /\ calls[k].ret.val.ok
              /\ calls[k].ret.val.val = calls[i].ret.val.val
              /\ calls[k].ret.val.val.name = calls[k].name
              /\ calls[k].name \in DOMAIN repos[RemotePath].remotes
              /\ repos[RemotePath].remotes[calls[k].name] = calls[k].ret.val.val.url
    /\ DOMAIN repos[RemotePath].remotes \subseteq
          DOMAIN initial_repos[RemotePath].remotes
              \cup {calls[i].name : i \in 1..Len(calls)}

\* C16 witness: the first call created the remote (the name was not
\* registered before), the second call, with the same name and URL, found
\* it, and both returned Ok.
EnsuredTwice ==
    /\ Len(calls) >= 2
    /\ SameEnsure(1, 2)
    /\ calls[1].name \notin DOMAIN initial_repos[RemotePath].remotes
    /\ calls[1].ret.some /\ calls[1].ret.val.ok
    /\ calls[2].ret.some /\ calls[2].ret.val.ok

\* the upstream remote of job j was registered in its checkout before the run
RemoteExisted(j) == jobs[j].remote_name \in DOMAIN InitialCheckoutOf(j).remotes
\* job j has printed a line with this label
Printed(j, label) ==
    \E i \in 1..Len(st[j].console) : st[j].console[i].label = label

\* C17: for a job that has performed its ensure-remote stage: if a remote of
\* that name existed (creation fails with Exists), no creation failure is
\* reported, and the stage, when the existing remote could be looked up, has
\* succeeded with the existing remote as handle and the checkout's remotes
\* unchanged; if no such remote existed and creation failed, the job has
\* returned with "failed to create remote <name>" as its last line, its
\* trace ends at that stage (no fetch, merge or push), its checkout is as it
\* was before the run, and the calling thread goes on.
ExistsIsNotAFailure ==
    \A j \in 1..Len(jobs) :
        Entered(j, "remote") =>
            /\ RemoteExisted(j) =>
                  /\ ~Printed(j, "failed to create remote")
                  /\ Failed(j, "remote") => st[j].pc = "panicked"
                  /\ Succeeded(j, "remote") =>
                        /\ st[j].remote =
                              Some([name |-> jobs[j].remote_name,
                                    url |-> InitialCheckoutOf(j).remotes[jobs[j].remote_name]])
                        /\ CheckoutOf(j).remotes = InitialCheckoutOf(j).remotes
            /\ (~RemoteExisted(j) /\ Failed(j, "remote")) =>
                  /\ st[j].pc = "done"
                  /\ Stages(j) = <<"open", "remote">>
                  /\ st[j].console[Len(st[j].console)] =
                        [stream |-> "err", label |-> "failed to create remote",
                         args |-> <<jobs[j].remote_name>>]
                  /\ st[j].remote = None
                  /\ CheckoutOf(j) = InitialCheckoutOf(j)
                  /\ main # "panicked"

\* C17 witness: one job found its upstream remote registered under another
\* URL and went on with that remote; another job, whose checkout had no such
\* remote, failed to create it and returned.
ExistingRemoteReturned ==
    \E j, k \in 1..Len(jobs) :
        /\ RemoteExisted(j) /\ Succeeded(j, "remote")
        /\ st[j].remote.val.url = StaleUrl
        /\ Entered(j, "fetch")
        /\ ~RemoteExisted(k) /\ Failed(k, "remote") /\ st[k].pc = "done"

BaselineUnreadable == ~flamingo_manifest.file.ok
SourceRootMissing == ~initial_repos[source].exists
SystemMalformed == system_manifest.some /\ ~system_manifest.val.file.ok
VendorMalformed == vendor_manifest.some /\ ~vendor_manifest.val.file.ok

\* C18: when the baseline manifest cannot be read or parsed, or the source
\* root cannot be opened, the run stops before any job is scheduled: the
\* calling thread never dispatches, no job is built, queued or started, and
\* no checkout is touched.
FatalInputsStopTheRun ==
    (BaselineUnreadable \/ SourceRootMissing) =>
        /\ main \in {"start", "panicked"}
        /\ jobs = <<>> /\ queue = <<>> /\ st = <<>>
        /\ repos = initial_repos

\* C19: when the baseline is readable and an upstream manifest (system or
\* vendor) is malformed, the run is not aborted: the calling thread does not
\* panic, the malformed upstream contributes no job, and once
\* merge_upstream has returned every baseline path of the other upstream's
\* mapping has a job that was executed.
MalformedUpstreamIsSkipped ==
    (~BaselineUnreadable /\ (SystemMalformed \/ VendorMalformed)) =>
        /\ main # "panicked"
        /\ \A j \in 1..Len(jobs) :
              /\ SystemMalformed => jobs[j].remote_name # SystemRemote
              /\ VendorMalformed => jobs[j].remote_name # VendorRemote
        /\ Returned =>
              \A p \in BaselinePaths \cap (SystemPaths \cup VendorPaths) :
                  \E j \in JobsFor(p) : Finished(j)

\* the outcome lines of job j: what it printed after its start line
Outcomes(j) == IF st[j].console = <<>> THEN <<>> ELSE Tail(st[j].console)

\* C20: a job that has started has printed "Merging in <repo_name>" first
\* and at most one outcome line after it, and when merge_upstream has
\* returned every job it dispatched has printed exactly one outcome line.
OneOutcomePerJob ==
    \A j \in 1..Len(jobs) :
        /\ st[j].console # <<>> =>
              st[j].console[1] = [stream |-> "out", label |-> "Merging in",
                                  args |-> <<jobs[j].repo_name>>]
        /\ Len(Outcomes(j)) <= 1
        /\ Returned => Len(Outcomes(j)) = 1

\* job j is executing a fetch that never returns
Stuck(j) == st[j].pc = "fetch" /\ WorldOf(j).fetch = {"hang"}
\* checkouts whose fetch never returns
HungPaths == {rp \in RepoPaths \ {source} : world[rp].fetch = {"hang"}}
\* every entry has been dispatched and every job except those stuck in a
\* fetch has completed
OthersCompleted ==
    /\ AllVisited /\ main # "start"
    /\ \A j \in 1..Len(jobs) : Stuck(j) \/ Finished(j)

\* no job is cancelled or interrupted: a step never removes or alters a
\* dispatched job, never moves a stuck or finished job, and never takes
\* back a stage a job has performed
NeverInterrupted ==
    /\ Len(jobs') >= Len(jobs)
    /\ \A j \in 1..Len(jobs) :
          /\ jobs'[j] = jobs[j]
          /\ (Stuck(j) \/ Finished(j)) => st'[j] = st[j]
          /\ Len(st'[j].trace) >= Len(st[j].trace)
          /\ SubSeq(st'[j].trace, 1, Len(st[j].trace)) = st[j].trace

\* merge_upstream has not returned while a job is stuck
NoReturnWhileStuck == Returned => \A j \in 1..Len(jobs) : ~Stuck(j)

\* C21 as stated: whatever the pool size, every job whose fetch returns is
\* eventually started and completed although another job's fetch never
\* returns; merge_upstream does not return while a job is stuck; no job is
\* ever cancelled or interrupted.
HangBlocksOnlyItsJob ==
    /\ <>OthersCompleted
    /\ []NoReturnWhileStuck
    /\ [][NeverInterrupted]_vars

\* C21: when the pool has more workers than there are jobs whose fetch never
\* returns, every other job is eventually started and completed;
\* merge_upstream does not return while a job is stuck; no job is ever
\* cancelled or interrupted.  (With as many stuck jobs as workers, the jobs
\* still waiting in the queue are never started.)
HangBlocksOnlyItsWorker ==
    /\ (thread_count > Cardinality(HungPaths)) => <>OthersCompleted
    /\ []NoReturnWhileStuck
    /\ [][NeverInterrupted]_vars

\* C21 witness: in a pool of two workers one job is stuck in its fetch, the
\* other job, dispatched after it, has completed, and merge_upstream has not
\* returned.
SiblingDoneWhileStuck ==
    /\ thread_count = 2
    /\ Len(jobs) = 2
    /\ Stuck(1)
    /\ st[2].pc = "done" /\ Succeeded(2, "merge")
    /\ main = "dispatch"

\* every job of the earlier run r performed all its stages with success and
\* left no conflict behind
RunSucceeded(r) ==
    /\ r.jobs # <<>>
    /\ \A j \in 1..Len(r.jobs) :
          /\ r.st[j].pc = "done"
          /\ \A i \in 1..Len(r.st[j].trace) : r.st[j].trace[i].ok
          /\ \E i \in 1..Len(r.st[j].trace) : r.st[j].trace[i].stage = "merge"
          /\ ~r.repos[r.jobs[j].repo_path].conflicts

AtRest ==
    /\ source = SourceRoot
    /\ flamingo_manifest = Manifest("flamingo", "", BaselineFile)
    /\ system_manifest = None
    /\ vendor_manifest = None
    /\ thread_count = 1
    /\ push = FALSE
    /\ repos = [rp \in RepoPaths |-> FreshCheckout]
    /\ initial_repos = repos
    /\ world = [rp \in RepoPaths |-> HealthyWorld]
    /\ main = "start"
    /\ flamingo_repos = <<>> /\ system_repos = <<>> /\ vendor_repos = <<>>
    /\ visited = {}
    /\ jobs = <<>> /\ queue = <<>> /\ st = <<>>
    /\ calls = <<>>
    /\ previous = <<>>

Returns(op, ret) ==
    /\ calls = <<>>
    /\ calls' = <<[op |-> op, ret |-> ret]>>
    /\ UNCHANGED <<args, main, maps, visited, jobs, queue, st, repos, world,
                   initial_repos, previous, input>>

Answered(op) == calls # <<>> /\ calls[1].op = op

(***************************************************************************)
(* roomservice: dependency.rs.  A string whose '/' the code looks at (the  *)
(* repository name, a remote's fetch URL) is the sequence of its segments  *)
(* between the slashes: "a/b" is <<"a", "b">>, "a/" is <<"a", "">>.        *)
(***************************************************************************)
DEPS_KEY_NAME == "repository"
DEPS_KEY_PATH == "target_path"
DEPS_KEY_REMOTE == "remote"
DEPS_KEY_BRANCH == "branch"
DEPS_KEY_DEPTH == "clone-depth"
GITHUB == "github"
FLAMINGO_DEVICES == "flamingo-devices"

\* str::contains("/")
ContainsSlash(s) == Len(s) >= 2

\* str::trim_end_matches('/')
RECURSIVE trim_end_matches(_)
trim_end_matches(s) ==
    IF Len(s) >= 2 /\ s[Len(s)] = ""
    THEN trim_end_matches(SubSeq(s, 1, Len(s) - 1))
    ELSE s

\* str::rsplit_once('/'): what precedes the last '/' and what follows it
rsplit_once(s) ==
    IF ContainsSlash(s)
    THEN Some([front |-> SubSeq(s, 1, Len(s) - 1), last |-> s[Len(s)]])
    ELSE None

\* JSON values; an object is a function from its keys to their values
JsonString(v) == [type |-> "string", val |-> v]
JsonNumber == [type |-> "number", val |-> 0]
JsonObject(fields) == [type |-> "object", val |-> fields]
JsonArray(items) == [type |-> "array", val |-> items]

\* get_string: the value of the key when it is a string
get_string(object, key) ==
    IF key \in DOMAIN object /\ object[key].type = "string"
    THEN Some(object[key].val)
    ELSE None

\* the remote taken when the object names none
DefaultRemote(name) == IF ContainsSlash(name) THEN GITHUB ELSE FLAMINGO_DEVICES

\* the remote of the object, or the default one
RemoteOf(repo, name) ==
    LET given == get_string(repo, DEPS_KEY_REMOTE)
    IN  IF given.some THEN given.val ELSE DefaultRemote(name)

\* the repository name, prefixed with the last segment of the remote's URL
RepoNameOf(name, remote, remotes) ==
    IF remote = GITHUB THEN Ok(name)
    ELSE IF remote \notin DOMAIN remotes
         THEN Err("No such remote exists")
         ELSE LET prefix == rsplit_once(trim_end_matches(remotes[remote].fetch))
              IN  IF ~prefix.some THEN Err("Remote is not well defined")
                  ELSE Ok(<<prefix.val.last>> \o name)

\* the branch of the object, or the default revision of the remote (the
\* message of the github error stands for the placeholder of line 59)
BranchOf(repo, remote, remotes) ==
    LET revision == get_string(repo, DEPS_KEY_BRANCH)
    IN  IF revision.some THEN Ok(revision.val)
        ELSE IF remote = GITHUB THEN Err("no revision for a github dependency")
             ELSE IF remotes[remote].revision.some
                  THEN Ok(remotes[remote].revision.val)
                  ELSE Err("Remote does not have a default revision")

\* Dependency::get
Dependency_get(json, remotes) ==
    IF json.type # "object" THEN Err("is not an Object")
    ELSE LET repo == json.val
             name == get_string(repo, DEPS_KEY_NAME)
             path == get_string(repo, DEPS_KEY_PATH)
         IN  IF ~name.some
             THEN Err("does not contain string value for key repository")
             ELSE IF ~path.some
             THEN Err("does not contain string value for key target_path")
             ELSE LET remote == RemoteOf(repo, name.val)
                      repo_name == RepoNameOf(name.val, remote, remotes)
                  IN  IF ~repo_name.ok THEN repo_name
                      ELSE LET branch == BranchOf(repo, remote, remotes)
                           IN  IF ~branch.ok THEN branch
                               ELSE Ok([name |-> repo_name.val,
                                        path |-> path.val,
                                        remote |-> remote,
                                        branch |-> branch.val,
                                        clone_depth |->
                                            get_string(repo, DEPS_KEY_DEPTH)])

(***************************************************************************)
(* SpecDependency: Dependency::get applied to the JSON values built from   *)
(* the keys of the dependency file format (each absent, a number, or one   *)
(* of a few strings) and to three remotes maps.                            *)
(***************************************************************************)
DevicesFetch == <<"https:", "", "github.com", "FlamingoOS-Devices">>
RemoteEntry(name, fetch, revision) ==
    [name |-> name, fetch |-> fetch, revision |-> revision]
RemotesMaps ==
    {(FLAMINGO_DEVICES :>
          RemoteEntry(FLAMINGO_DEVICES, DevicesFetch, Some("A13")))
        @@ ("flamingo" :>
          RemoteEntry("flamingo",
                      <<"https:", "", "github.com", "Flamingo-OS", "">>, None)),
     FLAMINGO_DEVICES :> RemoteEntry(FLAMINGO_DEVICES, DevicesFetch, None),
     FLAMINGO_DEVICES :> RemoteEntry(FLAMINGO_DEVICES, <<"localhost">>, Some("A13"))}

Absent == [type |-> "absent", val |-> 0]
NameValues == <<Absent, JsonNumber, JsonString(<<"device_x">>),
                JsonString(<<"user", "device_x">>)>>
PathValues == <<Absent, JsonNumber, JsonString("device/x")>>
RemoteValues == <<Absent, JsonNumber, JsonString(GITHUB),
                  JsonString(FLAMINGO_DEVICES), JsonString("flamingo"),
                  JsonString("nowhere")>>
BranchValues == <<Absent, JsonNumber, JsonString("B1")>>
RevisionValues == <<Absent, JsonString("R1")>>
DepthValues == <<Absent, JsonString("100")>>

\* the object that has the keys of `choice` whose value is not Absent
ObjectOf(choice) ==
    JsonObject([k \in {x \in DOMAIN choice : choice[x].type # "absent"}
                    |-> choice[k]])

InitDependency ==
    /\ AtRest
    /\ \E remotes \in RemotesMaps :
          \/ \E n \in DOMAIN NameValues, p \in DOMAIN PathValues,
                r \in DOMAIN RemoteValues, b \in DOMAIN BranchValues,
                v \in DOMAIN RevisionValues, d \in DOMAIN DepthValues :
                  input = [json |-> ObjectOf((DEPS_KEY_NAME :> NameValues[n])
                                       @@ (DEPS_KEY_PATH :> PathValues[p])
                                       @@ (DEPS_KEY_REMOTE :> RemoteValues[r])
                                       @@ (DEPS_KEY_BRANCH :> BranchValues[b])
                                       @@ ("revision" :> RevisionValues[v])
                                       @@ (DEPS_KEY_DEPTH :> DepthValues[d])),
                           remotes |-> remotes]
          \/ input = [json |-> JsonArray(<<>>), remotes |-> remotes]

GetDependency ==
    Returns("Dependency::get", Dependency_get(input.json, input.remotes))

NextDependency == GetDependency

SpecDependency == InitDependency /\ [][NextDependency]_vars

\* C23: an object that has string values for "repository" and
\* "target_path" and no other key is accepted by Dependency::get, whether
\* or not the repository value contains '/', when flamingo-devices is
\* defined with a default revision (and a fetch URL that has a last segment).
OnlyRequiredKeys(json) ==
    /\ json.type = "object"
    /\ DOMAIN json.val = {DEPS_KEY_NAME, DEPS_KEY_PATH}
    /\ \A k \in DOMAIN json.val : json.val[k].type = "string"
DevicesHasDefault(remotes) ==
    /\ FLAMINGO_DEVICES \in DOMAIN remotes
    /\ remotes[FLAMINGO_DEVICES].revision.some
    /\ ContainsSlash(trim_end_matches(remotes[FLAMINGO_DEVICES].fetch))
RequiredKeysSuffice ==
    (/\ Answered("Dependency::get")
     /\ OnlyRequiredKeys(input.json)
     /\ DevicesHasDefault(input.remotes))
        => calls[1].ret.ok

\* C24: the branch of the dependency returned by Dependency::get is the
\* value of the "revision" key of the object when that key is present.
RevisionKeyIsUsed ==
    (/\ Answered("Dependency::get")
     /\ calls[1].ret.ok
     /\ get_string(input.json.val, "revision").some)
        => calls[1].ret.val.branch = get_string(input.json.val, "revision").val

(***************************************************************************)
(* roomservice: main.rs, get_dependencies and what main does with its      *)
(* result.  A URL is the sequence of its segments; the web is a function   *)
(* from the URLs of the dependency files to the responses of the server.   *)
(***************************************************************************)
ORG == "FlamingoOS-Devices"
DEFAULT_BRANCH == "A13"
DEPENDENCY_FILE_NAME == "flamingo.dependencies"

get_deps_url(repo_name, branch) ==
    <<"https:", "", "raw.githubusercontent.com">> \o repo_name
        \o <<branch, DEPENDENCY_FILE_NAME>>

\* a response: whether send() returned one, its status, its body
Response(sent, status, text) == [sent |-> sent, status |-> status, text |-> text]
\* json::parse of a body: the body is either a JSON text or not one
NotJson == [parses |-> FALSE]
JsonText(value) == [parses |-> TRUE, json |-> value]
json_parse(text) == IF text.parses THEN Ok(text.json) ELSE Err("Failed to parse json")
is_success(status) == status >= 200 /\ status <= 299

RECURSIVE get_dependencies(_, _, _)

\* the loop over the array with each dependency placed after its own
RECURSIVE CollectPostOrder(_, _, _)
CollectPostOrder(array, remotes, web) ==
    IF Len(array) = 0 THEN Ok(<<>>)
    ELSE LET sub_dependency == Dependency_get(Head(array), remotes)
         IN  IF ~sub_dependency.ok THEN sub_dependency
             ELSE LET sub_dependencies ==
                          get_dependencies(sub_dependency.val, remotes, web)
                  IN  IF ~sub_dependencies.ok THEN sub_dependencies
                      ELSE LET rest == CollectPostOrder(Tail(array), remotes, web)
                           IN  IF ~rest.ok THEN rest
                               ELSE Ok(sub_dependencies.val
                                       \o <<sub_dependency.val>> \o rest.val)

\* the loop over the array: Ok of what it pushed, or the first Err
RECURSIVE CollectDependencies(_, _, _)
CollectDependencies(array, remotes, web) ==
    IF Len(array) = 0 THEN Ok(<<>>)
    ELSE LET sub_dependency == Dependency_get(Head(array), remotes)
         IN  IF ~sub_dependency.ok THEN sub_dependency
             ELSE LET sub_dependencies ==
                          get_dependencies(sub_dependency.val, remotes, web)
                  IN  IF ~sub_dependencies.ok THEN sub_dependencies
                      ELSE LET rest == CollectDependencies(Tail(array), remotes, web)
                           IN  IF ~rest.ok THEN rest
                               ELSE Ok(<<sub_dependency.val>>
                                       \o sub_dependencies.val \o rest.val)

get_dependencies(dependency, remotes, web) ==
    LET response == web[get_deps_url(dependency.name, dependency.branch)]
    IN  IF ~response.sent THEN Err("Failed to get dependency file")
        ELSE IF response.status = 404 THEN Ok(<<>>)
        ELSE IF ~is_success(response.status) THEN Err("GET request failed")
        ELSE LET deps == json_parse(response.text)
             IN  IF ~deps.ok THEN deps
                 ELSE IF deps.val.type = "array"
                      THEN CollectDependencies(deps.val.val, remotes, web)
                      ELSE Err("Unexpected element in dependency json")

\* roomservice manifest.rs
PROJECT_ELEMENT == "project"
get_project_name(dependency) ==
    IF ContainsSlash(dependency.name)
    THEN rsplit_once(dependency.name).val.last
    ELSE dependency.name[1]

ProjectElement(dependency) ==
    [name |-> PROJECT_ELEMENT,
     attributes |->
        ("name" :> get_project_name(dependency))
        @@ ("path" :> dependency.path)
        @@ ("remote" :> dependency.remote)
        @@ ("revision" :> dependency.branch)
        @@ (IF dependency.clone_depth.some
            THEN "clone-depth" :> dependency.clone_depth.val
            ELSE <<>>)]

\* the children the manifest has after add_dependencies on a new manifest
add_dependencies(dependencies) ==
    [i \in 1..Len(dependencies) |-> ProjectElement(dependencies[i])]

\* the sequence without the entries that repeat the path of an earlier one
RECURSIVE Deduplicated(_)
Deduplicated(s) ==
    IF Len(s) = 0 THEN <<>>
    ELSE LET front == Deduplicated(SubSeq(s, 1, Len(s) - 1))
             last == s[Len(s)]
         IN  IF \E i \in 1..Len(front) : front[i].path = last.path
             THEN front
             ELSE Append(front, last)

\* the list create_manifest builds, with repeated paths dropped
AllDependenciesDeduplicated(device_dependency, all_dependencies) ==
    Deduplicated(<<device_dependency>> \o all_dependencies)

\* the list create_manifest builds
AllDependencies(device_dependency, all_dependencies) ==
    <<device_dependency>> \o all_dependencies

\* create_manifest: the list it returns and the manifest it wrote, or the
\* error of the write
create_manifest(device_dependency, all_dependencies, written) ==
    LET dependencies == AllDependencies(device_dependency, all_dependencies)
    IN  IF written
        THEN Ok([dependencies |-> dependencies,
                 manifest |-> add_dependencies(dependencies)])
        ELSE Err("failed to create manifest file")

\* the arguments sync_dependencies gives to the repo command
sync_dependencies(dependencies) ==
    <<"sync", "--force-sync", "--no-tags", "--current-branch",
      "--no-clone-bundle">>
        \o [i \in 1..Len(dependencies) |-> dependencies[i].path]

(***************************************************************************)
(* SpecRoomservice: main from the call of get_dependencies on, over the    *)
(* dependency graphs of a device repository and three other repositories   *)
(* in which a file lists only repositories later in DependencyNames (so    *)
(* the graph has no cycle).  Each file is missing, or fails to be fetched  *)
(* or parsed, or is an array that lists later repositories in some order,  *)
(* possibly with an entry that is not an object.                           *)
(***************************************************************************)
DeviceRepo == "device_x_y"
\* device_repo.replace("_", "/")
DevicePath == "device/x/y"
DeviceDependency ==
    [name |-> <<ORG, DeviceRepo>>, path |-> DevicePath,
     remote |-> FLAMINGO_DEVICES, branch |-> DEFAULT_BRANCH,
     clone_depth |-> None]

DependencyNames == <<DeviceRepo, "dep_a", "dep_b", "dep_c">>
NotAnObject == "not an object"
Later(i) == {DependencyNames[j] : j \in (i + 1)..Len(DependencyNames)}

\* the sequences without repetition over a set
RECURSIVE Arrangements(_)
Arrangements(S) ==
    {<<>>} \cup UNION {{<<x>> \o s : s \in Arrangements(S \ {x})} : x \in S}

FileKinds == {"not found", "send error", "server error", "not json", "not array"}
Files(i) ==
    {[kind |-> k, entries |-> <<>>] : k \in FileKinds}
        \cup {[kind |-> "array", entries |-> e] :
                  e \in Arrangements(Later(i) \cup {NotAnObject})}

EntryJson(entry) ==
    IF entry = NotAnObject THEN JsonNumber
    ELSE JsonObject((DEPS_KEY_NAME :> JsonString(<<entry>>))
                    @@ (DEPS_KEY_PATH :> JsonString("path/" \o entry)))

ResponseOf(file) ==
    CASE file.kind = "not found" -> Response(TRUE, 404, NotJson)
      [] file.kind = "send error" -> Response(FALSE, 0, NotJson)
      [] file.kind = "server error" -> Response(TRUE, 500, NotJson)
      [] file.kind = "not json" -> Response(TRUE, 200, NotJson)
      [] file.kind = "not array" -> Response(TRUE, 200, JsonText(JsonNumber))
      [] file.kind = "array" ->
            Response(TRUE, 200,
                     JsonText(JsonArray([i \in 1..Len(file.entries) |->
                                            EntryJson(file.entries[i])])))

RoomserviceRemotes ==
    FLAMINGO_DEVICES :> RemoteEntry(FLAMINGO_DEVICES, DevicesFetch,
                                    Some(DEFAULT_BRANCH))

WebOf(files) ==
    [url \in {get_deps_url(<<ORG, DependencyNames[i]>>, DEFAULT_BRANCH) :
                  i \in DOMAIN DependencyNames} |->
        ResponseOf(files[CHOOSE i \in DOMAIN DependencyNames :
                             url = get_deps_url(<<ORG, DependencyNames[i]>>,
                                                DEFAULT_BRANCH)])]

InitRoomservice ==
    /\ AtRest
    /\ \E device \in Files(1), a \in Files(2), b \in Files(3), c \in Files(4) :
          LET files == <<device, a, b, c>>
          IN  input = [files |-> files, web |-> WebOf(files),
                       remotes |-> RoomserviceRemotes]

Step(n, op, ret) ==
    /\ Len(calls) = n
    /\ calls' = Append(calls, [op |-> op, ret |-> ret])
    /\ UNCHANGED <<args, main, maps, visited, jobs, queue, st, repos, world,
                   initial_repos, previous, input>>

GetDependencies ==
    Step(0, "get_dependencies",
         get_dependencies(DeviceDependency, input.remotes, input.web))

CreateManifest ==
    /\ Len(calls) = 1
    /\ calls[1].ret.ok
    /\ \E written \in BOOLEAN :
          Step(1, "create_manifest",
               create_manifest(DeviceDependency, calls[1].ret.val, written))

\* args.sync
SyncDependencies ==
    /\ Len(calls) = 2
    /\ calls[2].ret.ok
    /\ Step(2, "sync_dependencies",
            sync_dependencies(calls[2].ret.val.dependencies))

\* no args.sync: the paths are printed
PrintProjects ==
    /\ Len(calls) = 2
    /\ calls[2].ret.ok
    /\ Step(2, "println",
            [i \in 1..Len(calls[2].ret.val.dependencies) |->
                calls[2].ret.val.dependencies[i].path])

NextRoomservice ==
    \/ GetDependencies
    \/ CreateManifest
    \/ SyncDependencies
    \/ PrintProjects

SpecRoomservice == InitRoomservice /\ [][NextRoomservice]_vars

(***************************************************************************)
(* The dependency graph the files describe, for the properties of          *)
(* get_dependencies.                                                       *)
(***************************************************************************)
IndexOf(name) == CHOOSE i \in DOMAIN DependencyNames : DependencyNames[i] = name
\* what the file of a repository lists, in file order
Listed(name) ==
    LET file == input.files[IndexOf(name)]
    IN  IF file.kind = "array" THEN file.entries ELSE <<>>
PositionIn(name, entry) ==
    CHOOSE i \in DOMAIN Listed(name) : Listed(name)[i] = entry
DependenciesOf(name) ==
    {Listed(name)[i] : i \in DOMAIN Listed(name)} \ {NotAnObject}
\* the file cannot be fetched or parsed, or has an entry that is no dependency
FileFails(name) ==
    \/ input.files[IndexOf(name)].kind \notin {"array", "not found"}
    \/ \E i \in DOMAIN Listed(name) : Listed(name)[i] = NotAnObject

\* the paths of the graph that start at a repository: each is the sequence
\* of the repositories it goes through after the start
RECURSIVE PathsFrom(_)
PathsFrom(name) ==
    UNION {{<<d>>} \cup {<<d>> \o p : p \in PathsFrom(d)} :
              d \in DependenciesOf(name)}
DevicePaths == PathsFrom(DeviceRepo)
TransitiveDependencies == {p[Len(p)] : p \in DevicePaths}
PathsTo(name) == {p \in DevicePaths : p[Len(p)] = name}

\* depth-first pre-order on paths: a path comes before its extensions, and
\* where two paths part the one through the earlier file entry comes first
ParentAt(p, j) == IF j = 1 THEN DeviceRepo ELSE p[j - 1]
ComesBefore(p, q) ==
    \/ Len(p) < Len(q) /\ SubSeq(q, 1, Len(p)) = p
    \/ \E j \in 1..Len(p) :
          /\ j <= Len(q)
          /\ SubSeq(p, 1, j - 1) = SubSeq(q, 1, j - 1)
          /\ p[j] # q[j]
          /\ PositionIn(ParentAt(p, j), p[j]) < PositionIn(ParentAt(p, j), q[j])
PreOrderRank(p) == 1 + Cardinality({q \in DevicePaths : ComesBefore(q, p)})

\* the dependency Dependency::get makes of the file entry of a repository
DependencyNamed(name) ==
    [name |-> <<ORG, name>>, path |-> "path/" \o name,
     remote |-> FLAMINGO_DEVICES, branch |-> DEFAULT_BRANCH,
     clone_depth |-> None]

GotDependencies == Len(calls) >= 1 /\ calls[1].op = "get_dependencies"

\* C25: on an acyclic graph get_dependencies returns; when no file of the
\* device repository or of a transitive dependency fails it returns Ok of
\* the transitive dependencies in depth-first pre-order, one entry for each
\* path (a file that is not found lists nothing); otherwise it returns Err.
DepthFirstPreOrder ==
    GotDependencies =>
        IF \E n \in {DeviceRepo} \cup TransitiveDependencies : FileFails(n)
        THEN ~calls[1].ret.ok
        ELSE /\ calls[1].ret.ok
             /\ Len(calls[1].ret.val) = Cardinality(DevicePaths)
             /\ \A p \in DevicePaths :
                   calls[1].ret.val[PreOrderRank(p)] = DependencyNamed(p[Len(p)])

\* a graph with a dependency reached along two paths and a missing file
DiamondCollected ==
    /\ GotDependencies
    /\ calls[1].ret.ok
    /\ \E n \in TransitiveDependencies :
          /\ Cardinality(PathsTo(n)) >= 2
          /\ input.files[IndexOf(n)].kind = "not found"
    /\ \E n \in TransitiveDependencies : Len(Listed(n)) >= 2

CountIn(s, x) == Cardinality({i \in DOMAIN s : s[i] = x})
Manifested == Len(calls) >= 2 /\ calls[2].ret.ok
Synced == Len(calls) >= 3 /\ calls[3].op = "sync_dependencies"
ElementPaths(elements) ==
    [i \in DOMAIN elements |-> elements[i].attributes["path"]]

\* C30: the list create_manifest returns starts with the device repository
\* and has a dependency reachable along k paths k times; the manifest has k
\* project elements with its path and repo sync is given its path k times.
NotDeduplicated ==
    /\ Manifested =>
          /\ calls[2].ret.val.dependencies[1] = DeviceDependency
          /\ \A n \in TransitiveDependencies :
                /\ CountIn(calls[2].ret.val.dependencies, DependencyNamed(n))
                      = Cardinality(PathsTo(n))
                /\ CountIn(ElementPaths(calls[2].ret.val.manifest),
                           DependencyNamed(n).path)
                      = Cardinality(PathsTo(n))
                /\ \A i \in DOMAIN calls[2].ret.val.manifest :
                      calls[2].ret.val.manifest[i].name = PROJECT_ELEMENT
    /\ Synced =>
          \A n \in TransitiveDependencies :
              CountIn(calls[3].ret, DependencyNamed(n).path)
                  = Cardinality(PathsTo(n))

\* repo sync was given the path of a dependency more than once
SyncedTwice ==
    /\ Synced
    /\ \E n \in TransitiveDependencies :
          /\ Cardinality(PathsTo(n)) >= 2
          /\ CountIn(calls[3].ret, DependencyNamed(n).path) >= 2

(***************************************************************************)
(* roomservice: find_device_repo.  The listing of the organisation is a    *)
(* sequence of pages; each call of find_device_repo requests one page and  *)
(* either returns or calls itself for the next page, whose result it       *)
(* returns unchanged.  calls holds one record for each page requested.     *)
(***************************************************************************)
MaxPages == 3

RESPONSE_KEY_NAME == "name"
\* the repository names of the listings, and those the pattern
\* device_.*_<device name> matches
RepoNames == {"device_x_y", "device_z_y", "kernel_x_y"}
is_match(name) == name \in {"device_x_y", "device_z_y"}

NamedRepo(name) == JsonObject(RESPONSE_KEY_NAME :> JsonString(name))
Unnamed == JsonObject("id" :> JsonNumber)

\* the names of the entries that are objects with a string for "name"
RECURSIVE filter_map_names(_)
filter_map_names(array) ==
    IF Len(array) = 0 THEN <<>>
    ELSE LET value == Head(array)
             rest == filter_map_names(Tail(array))
         IN  IF value.type = "object"
                /\ get_string(value.val, RESPONSE_KEY_NAME).some
             THEN <<get_string(value.val, RESPONSE_KEY_NAME).val>> \o rest
             ELSE rest

\* Iterator::find with the last match taken
find_last(names) ==
    IF \E i \in DOMAIN names : is_match(names[i])
    THEN Some(names[CHOOSE i \in DOMAIN names :
                        /\ is_match(names[i])
                        /\ \A j \in DOMAIN names : is_match(names[j]) => j <= i])
    ELSE None

\* Iterator::find
find(names) ==
    IF \E i \in DOMAIN names : is_match(names[i])
    THEN Some(names[CHOOSE i \in DOMAIN names :
                        /\ is_match(names[i])
                        /\ \A j \in DOMAIN names : is_match(names[j]) => i <= j])
    ELSE None

\* one call of find_device_repo up to its return or its recursive call:
\* Some of the result it returns, or None when it goes on to the next page
FindInPage(response) ==
    IF ~response.sent
    THEN Some(Err("GET request to list repositories failed"))
    ELSE IF ~is_success(response.status)
    THEN Some(Err("GET request to list repositories failed. Status code"))
    ELSE LET json == json_parse(response.text)
         IN  IF ~json.ok THEN Some(json)
             ELSE IF json.val.type # "array"
             THEN Some(Err("GET response returned unexpected json response"))
             ELSE IF Len(json.val.val) = 0
             THEN Some(Err("Failed to find repository"))
             ELSE LET repo_name == find(filter_map_names(json.val.val))
                  IN  IF repo_name.some THEN Some(Ok(repo_name.val)) ELSE None

\* the pages a listing is made of
ListingPages ==
    <<Response(FALSE, 0, NotJson),
      Response(TRUE, 403, NotJson),
      Response(TRUE, 200, NotJson),
      Response(TRUE, 200, JsonText(Unnamed)),
      Response(TRUE, 200, JsonText(JsonArray(<<>>))),
      Response(TRUE, 200, JsonText(JsonArray(<<NamedRepo("kernel_x_y")>>))),
      Response(TRUE, 200, JsonText(JsonArray(<<JsonNumber, Unnamed>>))),
      Response(TRUE, 200, JsonText(JsonArray(<<NamedRepo("device_x_y")>>))),
      Response(TRUE, 200, JsonText(JsonArray(<<NamedRepo("kernel_x_y"), Unnamed,
                                               NamedRepo("device_z_y"),
                                               NamedRepo("device_x_y")>>))),
      Response(TRUE, 200, JsonText(JsonArray(<<NamedRepo("device_x_y"),
                                               NamedRepo("device_z_y")>>)))>>

InitFind ==
    /\ AtRest
    /\ \E choice \in [1..MaxPages -> DOMAIN ListingPages] :
          input = [listing |-> [p \in 1..MaxPages |-> ListingPages[choice[p]]]]

FindReturned == Len(calls) >= 1 /\ calls[Len(calls)].ret.some
\* the page argument: 1 in the call of main, page + 1 in the recursive call
NextPage == IF Len(calls) = 0 THEN 1 ELSE calls[Len(calls)].page + 1

FindDeviceRepo ==
    /\ ~FindReturned
    /\ NextPage <= MaxPages
    /\ calls' = Append(calls, [op |-> "find_device_repo", page |-> NextPage,
                               ret |-> FindInPage(input.listing[NextPage])])
    /\ UNCHANGED <<args, main, maps, visited, jobs, queue, st, repos, world,
                   initial_repos, previous, input>>

NextFind == FindDeviceRepo

SpecFind == InitFind /\ [][NextFind]_vars /\ WF_vars(FindDeviceRepo)

(***************************************************************************)
(* The listing as the properties of find_device_repo see it.               *)
(***************************************************************************)
IsArrayPage(p) ==
    /\ input.listing[p].sent
    /\ is_success(input.listing[p].status)
    /\ input.listing[p].text.parses
    /\ input.listing[p].text.json.type = "array"
Entries(p) == input.listing[p].text.json.val
EmptyPage(p) == IsArrayPage(p) /\ Len(Entries(p)) = 0
IsMatchingEntry(value) ==
    /\ value.type = "object"
    /\ RESPONSE_KEY_NAME \in DOMAIN value.val
    /\ value.val[RESPONSE_KEY_NAME].type = "string"
    /\ is_match(value.val[RESPONSE_KEY_NAME].val)
HasMatch(p) ==
    IsArrayPage(p) /\ \E i \in DOMAIN Entries(p) : IsMatchingEntry(Entries(p)[i])
FirstMatch(p) ==
    LET i == CHOOSE k \in DOMAIN Entries(p) :
                 /\ IsMatchingEntry(Entries(p)[k])
                 /\ \A j \in 1..(k - 1) : ~IsMatchingEntry(Entries(p)[j])
    IN  Entries(p)[i].val[RESPONSE_KEY_NAME].val
\* every request before page p was answered with a page to search
Searchable(p) == \A q \in 1..(p - 1) : IsArrayPage(q)
FindResult == calls[Len(calls)].ret.val
NotFound(result) ==
    /\ ~result.ok
    /\ result.err = "Failed to find repository"

\* C26 (order): the pages requested are 1, 2, 3, ... with none left out,
\* and a result comes from the last page requested.
PagesInOrder ==
    \A i \in DOMAIN calls :
        /\ calls[i].page = i
        /\ calls[i].ret.some => i = Len(calls)

\* C26 (result): Ok is the first matching name of the first page that has a
\* match, and the error "Failed to find repository" is returned exactly
\* when the page reached is empty (no page before it has a match).
FirstMatchReturned ==
    FindReturned =>
        /\ \A q \in 1..(Len(calls) - 1) : ~HasMatch(q) /\ ~EmptyPage(q)
        /\ FindResult.ok =>
              /\ HasMatch(Len(calls))
              /\ FindResult.val = FirstMatch(Len(calls))
        /\ NotFound(FindResult) <=> EmptyPage(Len(calls))

\* C26: find_device_repo visits the pages in order, returns the first match
\* in page order, returns "Failed to find repository" exactly for an empty
\* page reached before any match, and returns whenever some page is empty or
\* has a match.
FindsFirstMatchOrEmptyPage ==
    /\ []PagesInOrder
    /\ []FirstMatchReturned
    /\ \A p \in 1..MaxPages :
          (EmptyPage(p) \/ HasMatch(p)) => <>FindReturned
    /\ \A p \in 1..MaxPages :
          (/\ EmptyPage(p)
           /\ Searchable(p)
           /\ \A q \in 1..(p - 1) : ~HasMatch(q) /\ ~EmptyPage(q))
              => <>(FindReturned /\ NotFound(FindResult))

\* a match found on a later page, after a page without one
FoundOnLaterPage ==
    /\ FindReturned
    /\ Len(calls) >= 2
    /\ FindResult.ok
    /\ Len(Entries(Len(calls))) >= 2
    /\ ~IsMatchingEntry(Entries(Len(calls))[1])

\* the upstream remote of job j was registered before the run under a URL
\* other than the one the job was built with
RegisteredElsewhere(j) ==
    /\ RemoteExisted(j)
    /\ InitialCheckoutOf(j).remotes[jobs[j].remote_name] # jobs[j].remote_url
RegisteredUrl(j) == InitialCheckoutOf(j).remotes[jobs[j].remote_name]

\* C27: for a job whose remote name is registered under another URL, the
\* ensure-remote stage, when the existing remote could be looked up, has
\* succeeded with the registered remote as handle; the checkout keeps the
\* name under the registered URL through the whole job, and every fetch of
\* the job is from the registered URL, not from the URL of the job.
RegisteredUrlWins ==
    \A j \in 1..Len(jobs) :
        (Entered(j, "remote") /\ RegisteredElsewhere(j)) =>
            /\ Failed(j, "remote") => st[j].pc = "panicked"
            /\ Succeeded(j, "remote") =>
                  st[j].remote = Some([name |-> jobs[j].remote_name,
                                       url |-> RegisteredUrl(j)])
            /\ jobs[j].remote_name \in DOMAIN CheckoutOf(j).remotes
            /\ CheckoutOf(j).remotes[jobs[j].remote_name] = RegisteredUrl(j)
            /\ \A i \in 1..Len(st[j].trace) :
                  st[j].trace[i].stage = "fetch" =>
                      /\ st[j].trace[i].detail = RegisteredUrl(j)
                      /\ st[j].trace[i].detail # jobs[j].remote_url

\* C27 witness: a job has fetched from the URL its remote was registered
\* under before the run and has gone on to the end
FetchedFromRegisteredUrl ==
    \E j \in 1..Len(jobs) :
        /\ RegisteredElsewhere(j)
        /\ Succeeded(j, "fetch")
        /\ st[j].pc = "done"
        /\ st[j].remote.val.url = StaleUrl

(***************************************************************************)
(* manifest_merger: manifest.rs, update_default.  A manifest descriptor    *)
(* has a name and an optional tag; the default manifest is a file of the   *)
(* manifest repository, here the checkout at the source root.              *)
(***************************************************************************)
ATTR_REMOTE == "remote"
ATTR_REVISION == "revision"
ATTR_CLONE_DEPTH == "clone-depth"
ELEMENT_PROJECT == "project"

Descriptor(name, tag) == [name |-> name, tag |-> tag]
\* Manifest::get_revision of manifest.rs
TagRevision(manifest) ==
    IF manifest.tag.some THEN Some("refs/tags/" \o manifest.tag.val) ELSE None

\* the closure of and_modify with the vendor branch not under an else
NewRevisionBoth(revision, remote_name, system, vendor) ==
    IF system.some /\ remote_name = get_remote_name(system.val)
       /\ TagRevision(system.val).some
    THEN TagRevision(system.val).val
    ELSE IF vendor.some /\ remote_name = get_remote_name(vendor.val)
            /\ TagRevision(vendor.val).some
         THEN TagRevision(vendor.val).val
         ELSE revision

\* the closure of and_modify: the value the revision attribute gets
NewRevision(revision, remote_name, system, vendor) ==
    IF system.some
    THEN IF remote_name = get_remote_name(system.val)
            /\ TagRevision(system.val).some
         THEN TagRevision(system.val).val
         ELSE revision
    ELSE IF vendor.some
         THEN IF remote_name = get_remote_name(vendor.val)
                 /\ TagRevision(vendor.val).some
              THEN TagRevision(vendor.val).val
              ELSE revision
         ELSE revision

\* the closure of for_each on the attributes of a <remote> element
UpdateRemoteAttributes(attrs, system, vendor) ==
    IF ATTR_NAME \notin DOMAIN attrs THEN attrs
    ELSE IF ATTR_REVISION \notin DOMAIN attrs THEN attrs
         ELSE [attrs EXCEPT ![ATTR_REVISION] =
                  NewRevision(@, attrs[ATTR_NAME], system, vendor)]

\* lines 265-302: the children of the default manifest after the rewrite
UpdateRemotes(children, system, vendor) ==
    [i \in 1..Len(children) |->
        IF children[i].kind = "element" /\ children[i].name = ATTR_REMOTE
        THEN [children[i] EXCEPT !.attributes =
                 UpdateRemoteAttributes(@, system, vendor)]
        ELSE children[i]]

\* lines 312-327: the commit message; None where an unwrap panics
UpdateMessage(system, vendor) ==
    IF system.some
    THEN IF TagRevision(system.val).some
         THEN Some("system: Update default manifest to "
                   \o TagRevision(system.val).val)
         ELSE None
    ELSE IF vendor.some /\ TagRevision(vendor.val).some
         THEN Some("vendor: Update default manifest to "
                   \o TagRevision(vendor.val).val)
         ELSE None

\* update_default: what it returns (None when it panicked), the children of
\* the default manifest file and the manifest repository afterwards.
\* `outcome` is the first external call that fails, or "ok".
update_default(file, system, vendor, do_push, repo, outcome) ==
    LET xml_manifest == read_manifest(file)
        written == File(UpdateRemotes(xml_manifest.val, system, vendor))
        message == UpdateMessage(system, vendor)
        committed == add_and_commit(repo, "*", message.val).repo
    IN  IF ~xml_manifest.ok
        THEN [ret |-> Some(Err("Failed to parse")), file |-> file, repo |-> repo]
        ELSE IF outcome = "file cannot be opened"
        THEN [ret |-> Some(Err("Failed to create")), file |-> file, repo |-> repo]
        ELSE IF outcome = "repository cannot be opened"
        THEN [ret |-> Some(Err("Failed to open manifest repository")),
              file |-> written, repo |-> repo]
        ELSE IF ~message.some
        THEN [ret |-> None, file |-> written, repo |-> repo]
        ELSE IF outcome = "commit fails"
        THEN [ret |-> Some(Err("Failed to commit version change")),
              file |-> written, repo |-> repo]
        ELSE IF ~do_push
        THEN [ret |-> Some(Ok("()")), file |-> written, repo |-> committed]
        ELSE IF FLAMINGO_REMOTE \notin DOMAIN repo.remotes
        THEN [ret |-> None, file |-> written, repo |-> committed]
        ELSE IF outcome = "push fails"
        THEN [ret |-> Some(Err("Failed to push manifest repo")),
              file |-> written, repo |-> committed]
        ELSE [ret |-> Some(Ok("()")), file |-> written,
              repo |-> [committed EXCEPT !.pushed =
                           Append(@, [remote |-> FLAMINGO_REMOTE,
                                      refspec |-> PushRefspec,
                                      head |-> committed.head])]]

(***************************************************************************)
(* SpecDefault: update_default applied to default manifests made of the    *)
(* nodes below (any subset, in this order), with a system manifest, a      *)
(* vendor manifest or both, as main requires.                              *)
(***************************************************************************)
OldRevision == "refs/tags/OLD"
DefaultNodes ==
    <<Element("remote", [name |-> SystemRemote, fetch |-> "https://clo",
                         revision |-> OldRevision]),
      TextNode,
      Element("remote", [name |-> VendorRemote, fetch |-> "https://clo",
                         revision |-> OldRevision]),
      Element("remote", [name |-> SystemRemote, fetch |-> "https://mirror"]),
      Element("remote", [name |-> FLAMINGO_REMOTE, fetch |-> "https://flamingo",
                         revision |-> FLAMINGO_BRANCH]),
      Element("remote", [fetch |-> "https://nameless", revision |-> OldRevision]),
      Element("default", [remote |-> SystemRemote, revision |-> OldRevision]),
      Element("project", [name |-> SystemRemote, path |-> "art",
                          revision |-> OldRevision])>>

\* the nodes whose index is in S, in the order of DefaultNodes
RECURSIVE NodesUpTo(_, _)
NodesUpTo(S, n) ==
    IF n = 0 THEN <<>>
    ELSE IF n \in S THEN Append(NodesUpTo(S, n - 1), DefaultNodes[n])
         ELSE NodesUpTo(S, n - 1)
DefaultFile(S) == File(NodesUpTo(S, Len(DefaultNodes)))

UpstreamChoices ==
    {<<Some(Descriptor("system", Some(SystemTag))), None>>,
     <<None, Some(Descriptor("vendor", Some(VendorTag)))>>,
     <<Some(Descriptor("system", Some(SystemTag))),
       Some(Descriptor("vendor", Some(VendorTag)))>>}

InitDefault ==
    /\ AtRest
    /\ \E S \in SUBSET DOMAIN DefaultNodes, upstream \in UpstreamChoices,
         do_push \in BOOLEAN, readable \in BOOLEAN :
          input = [file |-> IF readable THEN DefaultFile(S) ELSE Unreadable,
                   system |-> upstream[1], vendor |-> upstream[2],
                   push |-> do_push]

UpdateOutcomes == {"ok", "file cannot be opened", "repository cannot be opened",
                   "commit fails", "push fails"}

UpdateDefault ==
    /\ calls = <<>>
    /\ \E outcome \in UpdateOutcomes :
          LET o == update_default(input.file, input.system, input.vendor,
                                  input.push, repos[SourceRoot], outcome)
          IN  /\ calls' = <<[op |-> "update_default", ret |-> o.ret,
                             file |-> o.file]>>
              /\ repos' = [repos EXCEPT ![SourceRoot] = o.repo]
    /\ UNCHANGED <<args, main, maps, visited, jobs, queue, st, world,
                   initial_repos, previous, input>>

NextDefault == UpdateDefault

SpecDefault == InitDefault /\ [][NextDefault]_vars

\* update_default got as far as writing the file
DefaultWritten ==
    /\ Answered("update_default")
    /\ input.file.ok
    /\ ~(/\ calls[1].ret.some
         /\ ~calls[1].ret.val.ok
         /\ calls[1].ret.val.err = "Failed to create")
Before(i) == input.file.children[i]
After(i) == calls[1].file.children[i]
IsRemoteWithRevision(node) ==
    /\ node.kind = "element"
    /\ node.name = "remote"
    /\ ATTR_NAME \in DOMAIN node.attributes
    /\ ATTR_REVISION \in DOMAIN node.attributes

\* C28: in the file update_default has written, every node is the node of
\* the input except for the value of the revision attribute of <remote>
\* elements that have one: with a system manifest given, the remotes named
\* as the system remote have the system revision and every other node is
\* unchanged (the vendor remote too); with only a vendor manifest given, the
\* remotes named as the vendor remote have the vendor revision and every
\* other node is unchanged.
OnlyRemoteRevisionsRewritten ==
    (Answered("update_default") /\ input.file.ok) =>
        /\ Len(calls[1].file.children) = Len(input.file.children)
        /\ \A i \in 1..Len(input.file.children) :
              LET applies ==
                      IF input.system.some THEN input.system.val
                      ELSE input.vendor.val
              IN  IF /\ DefaultWritten
                     /\ IsRemoteWithRevision(Before(i))
                     /\ Before(i).attributes[ATTR_NAME] = get_remote_name(applies)
                  THEN After(i) =
                          [Before(i) EXCEPT !.attributes[ATTR_REVISION] =
                              "refs/tags/" \o applies.tag.val]
                  ELSE After(i) = Before(i)

\* C28 witness: both manifests given, the file had a system remote and a
\* vendor remote with revisions and a system remote without one; it was
\* written with the system revision and the commit was made
SystemRevisionWritten ==
    /\ DefaultWritten
    /\ input.system.some /\ input.vendor.some
    /\ calls[1].ret.some /\ calls[1].ret.val.ok
    /\ \E i, k, n \in 1..Len(input.file.children) :
          /\ IsRemoteWithRevision(Before(i))
          /\ Before(i).attributes[ATTR_NAME] = SystemRemote
          /\ After(i).attributes[ATTR_REVISION] = SystemRevision
          /\ IsRemoteWithRevision(Before(k))
          /\ Before(k).attributes[ATTR_NAME] = VendorRemote
          /\ After(k).attributes[ATTR_REVISION] = OldRevision
          /\ Before(n).kind = "element" /\ Before(n).name = "remote"
          /\ ATTR_REVISION \notin DOMAIN Before(n).attributes

(***************************************************************************)
(* manifest_merger: manifest.rs, transform_manifest.  A project name is    *)
(* the sequence of its segments between the slashes, so that starts_with   *)
(* on the prefixes "platform/external/" and "platform/prebuilts/" can be   *)
(* computed.                                                               *)
(***************************************************************************)
elements_to_keep == {ELEMENT_PROJECT}
attrs_to_keep == {ATTR_CLONE_DEPTH, ATTR_NAME, ATTR_PATH}
shallow_clone_repos == {<<"platform", "external", "">>,
                        <<"platform", "prebuilts", "">>}

\* str::starts_with for a prefix that ends with '/'
starts_with(name, prefix) ==
    /\ Len(name) >= Len(prefix)
    /\ \A i \in 1..(Len(prefix) - 1) : name[i] = prefix[i]

\* the attributes of the input element that are carried over: all of them
KeptAttributesAll(attrs) == attrs

\* the attributes of the input element that are carried over
KeptAttributes(attrs) ==
    [key \in DOMAIN attrs \cap attrs_to_keep |-> attrs[key]]

\* entry(key).and_modify(|v| *v = value)
AndModify(attrs, key, value) ==
    IF key \in DOMAIN attrs THEN [attrs EXCEPT ![key] = value] ELSE attrs
\* entry(key).or_insert(value)
OrInsert(attrs, key, value) ==
    IF key \in DOMAIN attrs THEN attrs ELSE (key :> value) @@ attrs
\* insert(key, value)
Insert(attrs, key, value) ==
    (key :> value) @@ [k \in DOMAIN attrs \ {key} |-> attrs[k]]

\* lines 188-219: the element pushed for a kept element that has a name
TransformElement(elem, remote) ==
    LET filtered == KeptAttributes(elem.attributes)
        depth_reset == AndModify(filtered, ATTR_CLONE_DEPTH, "1")
        with_remote == Insert(depth_reset, ATTR_REMOTE, remote)
        name == with_remote[ATTR_NAME]
        should_shallow_clone ==
            \E prefix \in shallow_clone_repos : starts_with(name, prefix)
    IN  [elem EXCEPT !.attributes =
            IF should_shallow_clone
            THEN OrInsert(with_remote, ATTR_CLONE_DEPTH, "1")
            ELSE with_remote]

\* transform_manifest: Some of the children of the manifest it returns, or
\* None when attrs.get(ATTR_NAME).unwrap() panics
transform_manifest(children, remote) ==
    LET kept == SelectSeq(children, LAMBDA node :
                    node.kind = "element" => node.name \in elements_to_keep)
    IN  IF \E i \in 1..Len(kept) :
              /\ kept[i].kind = "element"
              /\ ATTR_NAME \notin DOMAIN KeptAttributes(kept[i].attributes)
        THEN None
        ELSE Some([i \in 1..Len(kept) |->
                     IF kept[i].kind = "element"
                     THEN TransformElement(kept[i], remote)
                     ELSE kept[i]])

(***************************************************************************)
(* SpecTransform: transform_manifest applied to the manifests made of the  *)
(* nodes below (any subset, in this order), and applied again to what it   *)
(* returned.                                                               *)
(***************************************************************************)
UpstreamNodes ==
    <<Element("project", [name |-> <<"platform", "external", "zlib">>,
                          path |-> "external/zlib", groups |-> "pdk"]),
      TextNode,
      Element("remote", [name |-> <<"aosp">>, fetch |-> "https://aosp"]),
      Element("project", (ATTR_CLONE_DEPTH :> "2")
                         @@ [name |-> <<"platform", "prebuilts", "gcc">>,
                             path |-> "prebuilts/gcc", remote |-> "aosp"]),
      Element("project", (ATTR_CLONE_DEPTH :> "2")
                         @@ [name |-> <<"platform", "art">>, path |-> "art",
                             revision |-> "refs/tags/OLD"]),
      Element("default", [remote |-> "aosp", revision |-> "refs/tags/OLD"]),
      Element("project", [name |-> <<"platform", "external">>]),
      Element("project", [path |-> "nameless"])>>
\* the names above that start with a prefix of shallow_clone_repos
ShallowNames == {<<"platform", "external", "zlib">>,
                 <<"platform", "prebuilts", "gcc">>}

\* the nodes whose index is in S, in the order of UpstreamNodes
RECURSIVE UpstreamUpTo(_, _)
UpstreamUpTo(S, n) ==
    IF n = 0 THEN <<>>
    ELSE IF n \in S THEN Append(UpstreamUpTo(S, n - 1), UpstreamNodes[n])
         ELSE UpstreamUpTo(S, n - 1)

InitTransform ==
    /\ AtRest
    /\ \E S \in SUBSET DOMAIN UpstreamNodes, remote \in {SystemRemote, VendorRemote} :
          input = [children |-> UpstreamUpTo(S, Len(UpstreamNodes)),
                   remote |-> remote]

\* download_manifest: the downloaded manifest is transformed
TransformManifest ==
    Step(0, "transform_manifest",
         transform_manifest(input.children, input.remote))

\* the transformed manifest is transformed again, with the same remote
TransformAgain ==
    /\ Len(calls) = 1
    /\ calls[1].ret.some
    /\ Step(1, "transform_manifest",
            transform_manifest(calls[1].ret.val, input.remote))

NextTransform ==
    \/ TransformManifest
    \/ TransformAgain

SpecTransform == InitTransform /\ [][NextTransform]_vars

IsProject(node) == node.kind = "element" /\ node.name = "project"
ElementsOf(children) == SelectSeq(children, LAMBDA node : node.kind = "element")
ProjectsOf(children) == SelectSeq(children, IsProject)
AllProjectsNamed ==
    \A i \in 1..Len(input.children) :
        IsProject(input.children[i]) => ATTR_NAME \in DOMAIN input.children[i].attributes

\* C29: for a manifest whose projects all have a name, transform_manifest
\* returns; the elements of the result are the projects of the input, in
\* order, each with its name, its path and clone-depth if it had them, and
\* remote, and no other attribute; remote is the given remote; clone-depth
\* is "1" wherever present, and present where the name starts with
\* platform/external/ or platform/prebuilts/; transforming the result again
\* with the same remote returns the same manifest.
OnlyProjectsKept ==
    (Len(calls) >= 1 /\ AllProjectsNamed) =>
        /\ calls[1].ret.some
        /\ LET out == ElementsOf(calls[1].ret.val)
               inp == ProjectsOf(input.children)
           IN  /\ Len(out) = Len(inp)
               /\ \A i \in 1..Len(inp) :
                     /\ IsProject(out[i])
                     /\ DOMAIN out[i].attributes \subseteq
                           {ATTR_NAME, ATTR_PATH, ATTR_CLONE_DEPTH, ATTR_REMOTE}
                     /\ out[i].attributes[ATTR_NAME] = inp[i].attributes[ATTR_NAME]
                     /\ ATTR_PATH \in DOMAIN out[i].attributes
                           <=> ATTR_PATH \in DOMAIN inp[i].attributes
                     /\ ATTR_PATH \in DOMAIN out[i].attributes =>
                           out[i].attributes[ATTR_PATH] = inp[i].attributes[ATTR_PATH]
                     /\ out[i].attributes[ATTR_REMOTE] = input.remote
                     /\ ATTR_CLONE_DEPTH \in DOMAIN out[i].attributes =>
                           out[i].attributes[ATTR_CLONE_DEPTH] = "1"
                     /\ inp[i].attributes[ATTR_NAME] \in ShallowNames =>
                           ATTR_CLONE_DEPTH \in DOMAIN out[i].attributes
        /\ Len(calls) >= 2 =>
              /\ calls[2].ret.some
              /\ calls[2].ret.val = calls[1].ret.val

\* C29 witness: a manifest with a shallow-clone project without
\* clone-depth, a project with clone-depth "2", a project with a remote of
\* its own and elements that are not projects, transformed twice
TransformedTwice ==
    /\ Len(calls) = 2
    /\ AllProjectsNamed
    /\ Len(ProjectsOf(input.children)) >= 3
    /\ Len(ElementsOf(input.children)) > Len(ProjectsOf(input.children))
    /\ \E i, k \in 1..Len(ProjectsOf(input.children)) :
          /\ ProjectsOf(input.children)[i].attributes[ATTR_NAME] \in ShallowNames
          /\ ATTR_CLONE_DEPTH \notin DOMAIN ProjectsOf(input.children)[i].attributes
          /\ ATTR_REMOTE \in DOMAIN ProjectsOf(input.children)[k].attributes
          /\ ProjectsOf(input.children)[k].attributes[ATTR_CLONE_DEPTH] = "2"

=============================================================================
